---- MODULE Spec2Model ----
(***************************************************************************)
(* WiFi Signal Plus: the link-status parser, the generation detection      *)
(* chain, the scan-dump parser and the WifiInfoService generation cache.   *)
(*                                                                         *)
(* Text is a sequence of one-character strings, so that includes(),        *)
(* startsWith(), trim(), split() and the regular expressions of the source *)
(* are computed character by character.  A JavaScript number is a          *)
(* fixed-point integer counting tenths (Num(11) is 11, 5735 is 573.5); the *)
(* input texts carry at most one fractional digit.  null is the empty      *)
(* tuple and a present value v is <<v>>.                                   *)
(***************************************************************************)
EXTENDS Integers, Sequences, FiniteSets, TLC

VARIABLES
    \* SpecDetect: one call of detectWifiGeneration
    dTokens, dLine, dPc, dResult,
    \* SpecLink, SpecExec: parseIwLinkOutput and executeIwLink
    lSrc,        \* the lines written into the text, with what each one is
    iwOutput,    \* the text handed to parseIwLinkOutput (stdout of iw dev <if> link)
    lLines,      \* iwOutput.split('\n')
    lIdx,        \* position of the for loop in lLines
    result,      \* the MutableParseResult under construction
    lPc,         \* position in parseIwLinkOutput
    lRet,        \* the frozen IwLinkInfo returned by parseIwLinkOutput, once returned
    ePc,         \* position in executeIwLink
    eRet,        \* the value the promise of executeIwLink resolved with
    eOutcome,    \* which way executeIwLink went (for the claims only)
    \* SpecScan: one call of parseIwScanDump
    sSrc,        \* what was written into the dump: the preamble and the blocks
    output,      \* the text handed to parseIwScanDump (stdout of iw dev <if> scan dump)
    sPc,
    sRet,        \* the Map returned, a function from BSSID to generation
    \* SpecService: the generation cache of WifiInfoService
    client,          \* this.client is not null
    watchedDevice,   \* this.watchedDevice is not null (its signals are connected)
    generationMap,   \* this.generationMap
    inflight,        \* calls of executeIwScanDump suspended at their await
    svcLog,          \* the dumps completed and the destroy() calls, in order (for the claims only)
    \* SpecClassify: one call of one of the classification functions
    fnName,      \* the function called
    fnArgs,      \* its arguments
    fnPc,
    fnRet,       \* the value returned
    \* SpecNetworks: one call of WifiInfoService.getAvailableNetworks
    wifiDevice,  \* what findWifiDevice() returns: null, or the device's access points and last scan
    excludeSsid, \* the argument of getAvailableNetworks
    nPc,
    loopLog,     \* how the for loop left each access point (for the claims only)
    networks,    \* the local array networks, as getAvailableNetworks leaves it
    nRet,        \* the Map returned, a sequence of <<ssid, networks>> in insertion order
    \* SpecExtension: the life cycle of WifiSignalPlusExtension
    enableEpoch,            \* this.enableEpoch
    wifiService,            \* this.wifiService: null, or the service made by the enable() of that epoch
    indicator,              \* this.indicator and this.label: null, or made by the enable() of that epoch
    refreshTimeout,         \* this.refreshTimeout: null, or the timer started in that epoch
    backgroundScanTimeout,  \* this.backgroundScanTimeout, likewise
    isMenuOpen,             \* this.isMenuOpen
    refreshPending,         \* this.refreshPending
    watching,               \* the services whose device-signal handlers are connected
    inits,                  \* per enable(): how the promise of its init() stands
    refreshing,             \* per await of refresh(): the calls suspended there
    lastCall,               \* the last of enable() and disable() (for the claims only)
    indicatorsCreated       \* per enable(): the indicators created for it (for the claims only)

detectVars == <<dTokens, dLine, dPc, dResult>>
linkVars == <<lSrc, iwOutput, lLines, lIdx, result, lPc, lRet, ePc, eRet, eOutcome>>
scanVars == <<sSrc, output, sPc, sRet>>
svcVars == <<client, watchedDevice, generationMap, inflight, svcLog>>
fnVars == <<fnName, fnArgs, fnPc, fnRet>>
netVars == <<wifiDevice, excludeSsid, nPc, loopLog, networks, nRet>>
extVars == <<enableEpoch, wifiService, indicator, refreshTimeout, backgroundScanTimeout,
             isMenuOpen, refreshPending, watching, inits, refreshing, lastCall,
             indicatorsCreated>>
vars == <<detectVars, linkVars, scanVars, svcVars, fnVars, netVars, extVars>>

(***************************************************************************)
(* Values                                                                  *)
(***************************************************************************)
Null == <<>>
Some(v) == <<v>>
Val(o) == o[1]
Num(n) == n * 10

\* const x = v; F(x): v is computed once and F applied to its value
LetIn(v, F(_)) == CHOOSE r \in {F(x) : x \in {v}} : TRUE

\* a ?? b
Coalesce(a, b) == LetIn(a, LAMBDA x : IF x # Null THEN Val(x) ELSE b)

Max(a, b) == IF a >= b THEN a ELSE b

\* a Map is a function from its keys; new Map() has none
EmptyMap == [k \in {} |-> 0]

(***************************************************************************)
(* Characters and strings                                                  *)
(***************************************************************************)
Digits == {"0","1","2","3","4","5","6","7","8","9"}
LowerLetters == {"a","b","c","d","e","f","g","h","i","j","k","l","m","n","o","p","q","r","s","t","u","v","w","x","y","z"}
UpperLetters == {"A","B","C","D","E","F","G","H","I","J","K","L","M","N","O","P","Q","R","S","T","U","V","W","X","Y","Z"}
WordChars == Digits \cup LowerLetters \cup UpperLetters \cup {"_"}
WhiteSpace == {" ", "\t", "\n"}
HexColon == Digits \cup {"a","b","c","d","e","f","A","B","C","D","E","F",":"}

DigitVal(c) ==
    CASE c = "0" -> 0 [] c = "1" -> 1 [] c = "2" -> 2 [] c = "3" -> 3 [] c = "4" -> 4
      [] c = "5" -> 5 [] c = "6" -> 6 [] c = "7" -> 7 [] c = "8" -> 8 [] c = "9" -> 9

toLowerCaseChar(c) ==
    CASE c = "A" -> "a" [] c = "B" -> "b" [] c = "C" -> "c" [] c = "D" -> "d"
      [] c = "E" -> "e" [] c = "F" -> "f" [] c = "G" -> "g" [] c = "H" -> "h"
      [] c = "I" -> "i" [] c = "J" -> "j" [] c = "K" -> "k" [] c = "L" -> "l"
      [] c = "M" -> "m" [] c = "N" -> "n" [] c = "O" -> "o" [] c = "P" -> "p"
      [] c = "Q" -> "q" [] c = "R" -> "r" [] c = "S" -> "s" [] c = "T" -> "t"
      [] c = "U" -> "u" [] c = "V" -> "v" [] c = "W" -> "w" [] c = "X" -> "x"
      [] c = "Y" -> "y" [] c = "Z" -> "z" [] OTHER -> c

toLowerCase(s) == [i \in 1..Len(s) |-> toLowerCaseChar(s[i])]

\* s has p at position i (1-based)
startsWithAt(s, i, p) ==
    /\ i >= 1
    /\ i + Len(p) - 1 <= Len(s)
    /\ \A k \in 1..Len(p) : s[i + k - 1] = p[k]

startsWith(s, p) == startsWithAt(s, 1, p)

includes(s, p) == \E i \in 1..(Len(s) - Len(p) + 1) : startsWithAt(s, i, p)

\* String.prototype.substring(n): the text from 0-based offset n on
substring(s, n) == SubSeq(s, n + 1, Len(s))

\* the end of the longest run of characters of class C that starts at i: the
\* first position from i on that holds no character of C (Len(s) + 1 at the end)
SkipWhile(s, i, C) ==
    IF i > Len(s) THEN i
    ELSE CHOOSE j \in i..(Len(s) + 1) :
             /\ \A k \in i..(j - 1) : s[k] \in C
             /\ (j = Len(s) + 1 \/ s[j] \notin C)

SkipSpaces(s, i) == SkipWhile(s, i, WhiteSpace)
SkipDigits(s, i) == SkipWhile(s, i, Digits)
SkipHexColon(s, i) == SkipWhile(s, i, HexColon)

\* the start of the longest run of white space that ends at the end of s
TrailingSpaces(s) ==
    CHOOSE j \in 1..(Len(s) + 1) :
        /\ \A k \in j..Len(s) : s[k] \in WhiteSpace
        /\ (j = 1 \/ s[j - 1] \notin WhiteSpace)

trim(s) ==
    LetIn(s, LAMBDA t :
        LetIn(SkipSpaces(t, 1), LAMBDA from :
            IF from > Len(t) THEN <<>> ELSE SubSeq(t, from, TrailingSpaces(t) - 1)))

\* String.prototype.split(sep) for a one-character separator: the pieces
\* between the occurrences of sep, in order
SeparatorPositions(s, sep) == {i \in 1..Len(s) : s[i] = sep}

\* the position of the k-th separator; 0 for k = 0 and Len(s) + 1 past the last
NthSeparator(s, sep, k) ==
    LetIn(SeparatorPositions(s, sep), LAMBDA at :
        IF k = 0 THEN 0
        ELSE IF k > Cardinality(at) THEN Len(s) + 1
        ELSE CHOOSE p \in at : Cardinality({q \in at : q <= p}) = k)

split(s, sep) ==
    [k \in 1..(Cardinality(SeparatorPositions(s, sep)) + 1) |->
        SubSeq(s, NthSeparator(s, sep, k - 1) + 1, NthSeparator(s, sep, k) - 1)]

\* the value of a run of decimal digits
RECURSIVE DigitsValue(_)
DigitsValue(ds) ==
    IF ds = <<>> THEN 0
    ELSE DigitsValue(SubSeq(ds, 1, Len(ds) - 1)) * 10 + DigitVal(ds[Len(ds)])

\* the least position in 1..n at which P holds, 0 when there is none
FirstIndex(P(_), n) ==
    LetIn({i \in 1..n : P(i)}, LAMBDA hits :
        IF hits = {} THEN 0 ELSE CHOOSE i \in hits : \A j \in hits : i <= j)

NaN == Null

\* parseFloat: leading white space, a sign, digits, a fraction; NaN when no
\* digit is found.  The result counts tenths.
parseFloat(str) ==
    LetIn(str, LAMBDA s :
    LetIn(SkipSpaces(s, 1), LAMBDA a :
    LetIn(IF a <= Len(s) /\ s[a] \in {"-", "+"} THEN a + 1 ELSE a, LAMBDA b :
    LetIn(SkipDigits(s, b), LAMBDA c :
    LetIn(IF c <= Len(s) /\ s[c] = "." THEN SkipDigits(s, c + 1) ELSE c, LAMBDA d :
        LET neg == a <= Len(s) /\ s[a] = "-"
            ip == DigitsValue(SubSeq(s, b, c - 1))
            fp == IF d > c + 1 THEN DigitVal(s[c + 1]) ELSE 0
            mag == ip * 10 + fp
        IN  IF c = b /\ d <= c + 1 THEN NaN
            ELSE Some(IF neg THEN 0 - mag ELSE mag))))))

\* parseInt(s, 10): leading white space, a sign, digits; NaN when no digit
parseInt(str) ==
    LetIn(str, LAMBDA s :
    LetIn(SkipSpaces(s, 1), LAMBDA a :
    LetIn(IF a <= Len(s) /\ s[a] \in {"-", "+"} THEN a + 1 ELSE a, LAMBDA b :
    LetIn(SkipDigits(s, b), LAMBDA c :
        LET neg == a <= Len(s) /\ s[a] = "-"
            mag == Num(DigitsValue(SubSeq(s, b, c - 1)))
        IN  IF c = b THEN NaN
            ELSE Some(IF neg THEN 0 - mag ELSE mag)))))

(***************************************************************************)
(* Regular expressions of wifiGeneration.ts.  RegExpMatch(line, pattern)   *)
(* is String.prototype.match for a pattern without the g flag: null, or    *)
(* the first capture group of the leftmost match.                          *)
(***************************************************************************)
S_MBit == <<"M","B","i","t","/","s">>
S_MHz == <<"M","H","z">>
S_MCS == <<"M","C","S">>
S_DashMCS == <<"-","M","C","S">>
S_EHT_MCS == <<"E","H","T","-","M","C","S">>
S_HE_MCS == <<"H","E","-","M","C","S">>
S_VHT_MCS == <<"V","H","T","-","M","C","S">>
S_EHT_NSS == <<"E","H","T","-","N","S","S">>
S_HE_NSS == <<"H","E","-","N","S","S">>
S_VHT_NSS == <<"V","H","T","-","N","S","S">>
S_EHT_GI == <<"E","H","T","-","G","I">>
S_HE_GI == <<"H","E","-","G","I">>
S_shortGI == <<"s","h","o","r","t"," ","G","I">>

\* /<lit>\s+(\d+)/
RE_LitNum(lit) == [kind |-> "lit_ws_num", lit |-> lit]
\* /\bMCS\s+(\d+)/
RE_BareMcs == [kind |-> "bare_mcs", lit |-> S_MCS]
\* /(\d+\.?\d*)\s*MBit\/s/
RE_Bitrate == [kind |-> "bitrate", lit |-> S_MBit]
\* /(\d+)MHz/
RE_Width == [kind |-> "width", lit |-> S_MHz]
\* /Connected to ([0-9a-f:]+)/i ; the literal is compared in lower case
RE_Connected == [kind |-> "connected", lit |-> <<"c","o","n","n","e","c","t","e","d"," ","t","o"," ">>]
\* /signal:\s*(-?\d+)/
RE_Signal == [kind |-> "signal", lit |-> <<"s","i","g","n","a","l",":">>]

\* <<from, to>>, the extent of capture group 1 when the pattern matches at
\* position i of the line, and <<0, 0>> when it does not match there
MatchAt(line, pattern, i) ==
    CASE pattern.kind = "lit_ws_num" ->
            LetIn(i + Len(pattern.lit), LAMBDA a :
            LetIn(SkipSpaces(line, a), LAMBDA b :
            LetIn(SkipDigits(line, b), LAMBDA c :
                IF startsWithAt(line, i, pattern.lit) /\ b > a /\ c > b
                THEN <<b, c - 1>> ELSE <<0, 0>>)))
      [] pattern.kind = "bare_mcs" ->
            LetIn(i + Len(pattern.lit), LAMBDA a :
            LetIn(SkipSpaces(line, a), LAMBDA b :
            LetIn(SkipDigits(line, b), LAMBDA c :
                IF /\ startsWithAt(line, i, pattern.lit)
                   /\ (i = 1 \/ line[i - 1] \notin WordChars)
                   /\ b > a
                   /\ c > b
                THEN <<b, c - 1>> ELSE <<0, 0>>)))
      [] pattern.kind = "bitrate" ->
            LetIn(SkipDigits(line, i), LAMBDA a :
            LetIn(IF a <= Len(line) /\ line[a] = "." THEN SkipDigits(line, a + 1) ELSE a,
                  LAMBDA b :
            LetIn(SkipSpaces(line, b), LAMBDA c :
                IF a > i /\ startsWithAt(line, c, pattern.lit)
                THEN <<i, b - 1>> ELSE <<0, 0>>)))
      [] pattern.kind = "width" ->
            LetIn(SkipDigits(line, i), LAMBDA a :
                IF a > i /\ startsWithAt(line, a, pattern.lit)
                THEN <<i, a - 1>> ELSE <<0, 0>>)
      [] pattern.kind = "connected" ->
            LetIn(i + Len(pattern.lit), LAMBDA a :
            LetIn(SkipHexColon(line, a), LAMBDA b :
                IF /\ a - 1 <= Len(line)
                   /\ toLowerCase(SubSeq(line, i, a - 1)) = pattern.lit
                   /\ b > a
                THEN <<a, b - 1>> ELSE <<0, 0>>))
      [] pattern.kind = "signal" ->
            LetIn(SkipSpaces(line, i + Len(pattern.lit)), LAMBDA a :
            LetIn(IF a <= Len(line) /\ line[a] = "-" THEN a + 1 ELSE a, LAMBDA b :
            LetIn(SkipDigits(line, b), LAMBDA c :
                IF startsWithAt(line, i, pattern.lit) /\ c > b
                THEN <<a, c - 1>> ELSE <<0, 0>>)))

\* a match can only start where the first character of the pattern can stand
CanStartAt(line, pattern, i) ==
    IF pattern.kind \in {"bitrate", "width"} THEN line[i] \in Digits
    ELSE IF pattern.kind = "connected" THEN toLowerCaseChar(line[i]) = pattern.lit[1]
    ELSE line[i] = pattern.lit[1]

RegExpMatch(line, pattern) ==
    LetIn(FirstIndex(LAMBDA i : CanStartAt(line, pattern, i)
                                  /\ MatchAt(line, pattern, i)[1] > 0,
                     Len(line)),
          LAMBDA at :
              IF at = 0 THEN Null
              ELSE LetIn(MatchAt(line, pattern, at), LAMBDA group :
                         Some(SubSeq(line, group[1], group[2]))))

(***************************************************************************)
(* types.ts                                                                *)
(***************************************************************************)
WIFI_UNKNOWN == 0
WIFI_1 == 1
WIFI_2 == 2
WIFI_3 == 3
WIFI_4 == 4
WIFI_5 == 5
WIFI_6 == 6
WIFI_7 == 7
WifiGeneration == WIFI_UNKNOWN..WIFI_7

isKnownGeneration(gen) == gen >= WIFI_1 /\ gen <= WIFI_7

IEEE_STANDARDS ==
    [g \in WifiGeneration |->
        CASE g = WIFI_1 -> "802.11b" [] g = WIFI_2 -> "802.11a" [] g = WIFI_3 -> "802.11g"
          [] g = WIFI_4 -> "802.11n" [] g = WIFI_5 -> "802.11ac" [] g = WIFI_6 -> "802.11ax"
          [] g = WIFI_7 -> "802.11be" [] OTHER -> "Unknown"]

\* guard intervals in tenths of a microsecond
GI_SHORT == 4
GI_NORMAL == 8
GI_LONG_1 == 16
GI_LONG_2 == 32

HE_GI_INDEX_MAP == (Num(0) :> GI_NORMAL) @@ (Num(1) :> GI_LONG_1) @@ (Num(2) :> GI_LONG_2)

createEmptyIwLinkInfo ==
    [generation |-> WIFI_UNKNOWN, standard |-> Null, mcs |-> Null, nss |-> Null,
     guardInterval |-> Null, channelWidth |-> Null, txBitrate |-> Null,
     rxBitrate |-> Null, signal |-> Null, frequency |-> Null, ssid |-> Null,
     bssid |-> Null]

(***************************************************************************)
(* The generation detection chain (wifiGeneration.ts)                      *)
(***************************************************************************)
parseNumericValue(line, pattern) ==
    LetIn(RegExpMatch(line, pattern), LAMBDA match :
        IF match = Null THEN Null
        ELSE LetIn(parseFloat(Val(match)), LAMBDA value :
                   IF value = NaN THEN Null ELSE value))

parseMcs(line, pattern) == parseNumericValue(line, pattern)

parseNss(line, pattern) == parseNumericValue(line, pattern)

\* mutant: the guard interval read as for VHT and HT, from 'short GI'
parseHeGuardInterval_FromShortGi(line, prefix) ==
    IF includes(line, S_shortGI) THEN GI_SHORT ELSE GI_NORMAL

parseHeGuardInterval(line, prefix) ==
    LetIn(RegExpMatch(line, RE_LitNum(prefix)), LAMBDA match :
        IF match = Null THEN GI_NORMAL
        ELSE LetIn(parseInt(Val(match)), LAMBDA giIndex :
                   IF giIndex # NaN /\ Val(giIndex) \in DOMAIN HE_GI_INDEX_MAP
                   THEN HE_GI_INDEX_MAP[Val(giIndex)]
                   ELSE GI_NORMAL))

tryParseEHT(line) ==
    IF ~includes(line, S_EHT_MCS) THEN Null
    ELSE Some([generation |-> WIFI_7,
               mcs |-> parseMcs(line, RE_LitNum(S_EHT_MCS)),
               nss |-> parseNss(line, RE_LitNum(S_EHT_NSS)),
               guardInterval |-> Some(parseHeGuardInterval(line, S_EHT_GI))])

tryParseHE(line) ==
    IF ~includes(line, S_HE_MCS) THEN Null
    ELSE Some([generation |-> WIFI_6,
               mcs |-> parseMcs(line, RE_LitNum(S_HE_MCS)),
               nss |-> parseNss(line, RE_LitNum(S_HE_NSS)),
               guardInterval |-> Some(parseHeGuardInterval(line, S_HE_GI))])

tryParseVHT(line) ==
    IF ~includes(line, S_VHT_MCS) THEN Null
    ELSE Some([generation |-> WIFI_5,
               mcs |-> parseMcs(line, RE_LitNum(S_VHT_MCS)),
               nss |-> parseNss(line, RE_LitNum(S_VHT_NSS)),
               guardInterval |->
                   Some(IF includes(line, S_shortGI) THEN GI_SHORT ELSE GI_NORMAL)])

\* mutant: the stream count without the + 1
tryParseHT_NoPlusOne(line) ==
    IF RegExpMatch(line, RE_BareMcs) = Null \/ includes(line, S_DashMCS) THEN Null
    ELSE LetIn(parseMcs(line, RE_BareMcs), LAMBDA mcs :
             Some([generation |-> WIFI_4,
                   mcs |-> mcs,
                   nss |-> IF mcs # Null THEN Some(Num(Val(mcs) \div Num(8))) ELSE Null,
                   guardInterval |->
                       Some(IF includes(line, S_shortGI) THEN GI_SHORT ELSE GI_NORMAL)]))

tryParseHT(line) ==
    IF RegExpMatch(line, RE_BareMcs) = Null \/ includes(line, S_DashMCS) THEN Null
    ELSE LetIn(parseMcs(line, RE_BareMcs), LAMBDA mcs :
             Some([generation |-> WIFI_4,
                   mcs |-> mcs,
                   nss |-> IF mcs # Null THEN Some(Num((Val(mcs) \div Num(8)) + 1)) ELSE Null,
                   guardInterval |->
                       Some(IF includes(line, S_shortGI) THEN GI_SHORT ELSE GI_NORMAL)]))

UnknownDetection ==
    [generation |-> WIFI_UNKNOWN, mcs |-> Null, nss |-> Null, guardInterval |-> Null]

\* mutant: the HE matcher is tried before the EHT matcher
detectWifiGeneration_HeFirst(line) ==
    Coalesce(tryParseHE(line),
        Coalesce(tryParseEHT(line),
            Coalesce(tryParseVHT(line),
                Coalesce(tryParseHT(line), UnknownDetection))))

detectWifiGeneration(line) ==
    Coalesce(tryParseEHT(line),
        Coalesce(tryParseHE(line),
            Coalesce(tryParseVHT(line),
                Coalesce(tryParseHT(line), UnknownDetection))))

(***************************************************************************)
(* The link state parser (wifiGeneration.ts)                               *)
(***************************************************************************)
S_NotConnected == <<"N","o","t"," ","c","o","n","n","e","c","t","e","d">>
S_SSID == <<"S","S","I","D",":">>
S_ConnectedTo == <<"C","o","n","n","e","c","t","e","d"," ","t","o">>
S_freq == <<"f","r","e","q",":">>
S_signal == <<"s","i","g","n","a","l",":">>
S_txBitrate == <<"t","x"," ","b","i","t","r","a","t","e",":">>
S_rxBitrate == <<"r","x"," ","b","i","t","r","a","t","e",":">>

createMutableResult ==
    [generation |-> WIFI_UNKNOWN, standard |-> Null, mcs |-> Null, nss |-> Null,
     guardInterval |-> Null, channelWidth |-> Null, txBitrate |-> Null,
     rxBitrate |-> Null, signal |-> Null, frequency |-> Null, ssid |-> Null,
     bssid |-> Null]

WIFI_1_MAX_BITRATE == 11
FREQ_5GHZ_START == 5000

\* mutant: the fallback decides also when a marker has set the generation
detectLegacyGeneration_Overriding(res) ==
    IF res.frequency = Null THEN res
    ELSE IF Val(res.frequency) >= Num(FREQ_5GHZ_START)
         THEN [res EXCEPT !.generation = WIFI_2]
    ELSE LET maxBitrate == Max(Coalesce(res.txBitrate, 0), Coalesce(res.rxBitrate, 0))
         IN  IF maxBitrate = 0 THEN res
             ELSE [res EXCEPT !.generation =
                        IF maxBitrate <= Num(WIFI_1_MAX_BITRATE) THEN WIFI_1 ELSE WIFI_3]

\* mutant: the 802.11b ceiling is compared with < instead of <=
detectLegacyGeneration_Strict(res) ==
    IF res.generation # WIFI_UNKNOWN THEN res
    ELSE IF res.frequency = Null THEN res
    ELSE IF Val(res.frequency) >= Num(FREQ_5GHZ_START)
         THEN [res EXCEPT !.generation = WIFI_2]
    ELSE LET maxBitrate == Max(Coalesce(res.txBitrate, 0), Coalesce(res.rxBitrate, 0))
         IN  IF maxBitrate = 0 THEN res
             ELSE [res EXCEPT !.generation =
                        IF maxBitrate < Num(WIFI_1_MAX_BITRATE) THEN WIFI_1 ELSE WIFI_3]

detectLegacyGeneration(res) ==
    IF res.generation # WIFI_UNKNOWN THEN res
    ELSE IF res.frequency = Null THEN res
    ELSE IF Val(res.frequency) >= Num(FREQ_5GHZ_START)
         THEN [res EXCEPT !.generation = WIFI_2]
    ELSE LET maxBitrate == Max(Coalesce(res.txBitrate, 0), Coalesce(res.rxBitrate, 0))
         IN  IF maxBitrate = 0 THEN res
             ELSE [res EXCEPT !.generation =
                        IF maxBitrate <= Num(WIFI_1_MAX_BITRATE) THEN WIFI_1 ELSE WIFI_3]

\* mutant: the standard is filled in whatever the generation
freezeResult_Always(res) == [res EXCEPT !.standard = Some(IEEE_STANDARDS[res.generation])]

freezeResult(res) ==
    IF isKnownGeneration(res.generation)
    THEN [res EXCEPT !.standard = Some(IEEE_STANDARDS[res.generation])]
    ELSE res

\* mutant: the BSSID is whatever follows "Connected to", with no pattern to match
parseConnectionInfo_RawBssid(line, res) ==
    IF startsWith(line, S_SSID)
    THEN [res EXCEPT !.ssid = Some(trim(substring(line, 5)))]
    ELSE IF startsWith(line, S_ConnectedTo)
    THEN [res EXCEPT !.bssid = Some(trim(substring(line, 12)))]
    ELSE IF startsWith(line, S_freq)
    THEN LetIn(parseFloat(trim(substring(line, 5))), LAMBDA value :
             IF value # NaN THEN [res EXCEPT !.frequency = value] ELSE res)
    ELSE IF startsWith(line, S_signal)
    THEN LetIn(RegExpMatch(line, RE_Signal), LAMBDA match :
             IF match # Null THEN [res EXCEPT !.signal = parseInt(Val(match))] ELSE res)
    ELSE res

parseConnectionInfo(line, res) ==
    IF startsWith(line, S_SSID)
    THEN [res EXCEPT !.ssid = Some(trim(substring(line, 5)))]
    ELSE IF startsWith(line, S_ConnectedTo)
    THEN LetIn(RegExpMatch(line, RE_Connected), LAMBDA match :
             IF match # Null THEN [res EXCEPT !.bssid = match] ELSE res)
    ELSE IF startsWith(line, S_freq)
    THEN LetIn(parseFloat(trim(substring(line, 5))), LAMBDA value :
             IF value # NaN THEN [res EXCEPT !.frequency = value] ELSE res)
    ELSE IF startsWith(line, S_signal)
    THEN LetIn(RegExpMatch(line, RE_Signal), LAMBDA match :
             IF match # Null THEN [res EXCEPT !.signal = parseInt(Val(match))] ELSE res)
    ELSE res

parseBitrateLine(line) ==
    LetIn(detectWifiGeneration(line), LAMBDA generationInfo :
        [bitrate |-> parseNumericValue(line, RE_Bitrate),
         generation |-> generationInfo.generation,
         mcs |-> generationInfo.mcs,
         nss |-> generationInfo.nss,
         guardInterval |-> generationInfo.guardInterval,
         channelWidth |-> parseNumericValue(line, RE_Width)])

\* mutant: the channel width of the line is recorded with or without a marker
applyBitrateInfoIfDetected_WidthAlways(bitrateInfo, res) ==
    IF bitrateInfo.generation = WIFI_UNKNOWN
    THEN [res EXCEPT !.channelWidth = bitrateInfo.channelWidth]
    ELSE [res EXCEPT !.generation = bitrateInfo.generation,
                     !.mcs = bitrateInfo.mcs,
                     !.nss = bitrateInfo.nss,
                     !.guardInterval = bitrateInfo.guardInterval,
                     !.channelWidth = bitrateInfo.channelWidth]

applyBitrateInfoIfDetected(bitrateInfo, res) ==
    IF bitrateInfo.generation = WIFI_UNKNOWN THEN res
    ELSE [res EXCEPT !.generation = bitrateInfo.generation,
                     !.mcs = bitrateInfo.mcs,
                     !.nss = bitrateInfo.nss,
                     !.guardInterval = bitrateInfo.guardInterval,
                     !.channelWidth = bitrateInfo.channelWidth]

\* mutant: the rx line is applied whether or not a generation is already known
parseBitrateLines_RxAlways(line, res) ==
    IF startsWith(line, S_txBitrate)
    THEN LetIn(parseBitrateLine(line), LAMBDA bitrateInfo :
             applyBitrateInfoIfDetected(bitrateInfo,
                 [res EXCEPT !.txBitrate = bitrateInfo.bitrate]))
    ELSE IF startsWith(line, S_rxBitrate)
    THEN LetIn(parseBitrateLine(line), LAMBDA bitrateInfo :
             applyBitrateInfoIfDetected(bitrateInfo,
                 [res EXCEPT !.rxBitrate = bitrateInfo.bitrate]))
    ELSE res

\* mutant: the first bitrate line with a marker keeps the generation fields
parseBitrateLines_FirstMarkerWins(line, res) ==
    IF startsWith(line, S_txBitrate)
    THEN LetIn(parseBitrateLine(line), LAMBDA bitrateInfo :
             IF res.generation = WIFI_UNKNOWN
             THEN applyBitrateInfoIfDetected(bitrateInfo,
                      [res EXCEPT !.txBitrate = bitrateInfo.bitrate])
             ELSE [res EXCEPT !.txBitrate = bitrateInfo.bitrate])
    ELSE IF startsWith(line, S_rxBitrate)
    THEN LetIn(parseBitrateLine(line), LAMBDA bitrateInfo :
             IF res.generation = WIFI_UNKNOWN
             THEN applyBitrateInfoIfDetected(bitrateInfo,
                      [res EXCEPT !.rxBitrate = bitrateInfo.bitrate])
             ELSE [res EXCEPT !.rxBitrate = bitrateInfo.bitrate])
    ELSE res

\* mutant: the rx line is skipped whole once a generation is known
parseBitrateLines_RxSkipped(line, res) ==
    IF startsWith(line, S_txBitrate)
    THEN LetIn(parseBitrateLine(line), LAMBDA bitrateInfo :
             applyBitrateInfoIfDetected(bitrateInfo,
                 [res EXCEPT !.txBitrate = bitrateInfo.bitrate]))
    ELSE IF startsWith(line, S_rxBitrate)
    THEN LetIn(parseBitrateLine(line), LAMBDA bitrateInfo :
             IF res.generation = WIFI_UNKNOWN
             THEN applyBitrateInfoIfDetected(bitrateInfo,
                      [res EXCEPT !.rxBitrate = bitrateInfo.bitrate])
             ELSE res)
    ELSE res

parseBitrateLines(line, res) ==
    IF startsWith(line, S_txBitrate)
    THEN LetIn(parseBitrateLine(line), LAMBDA bitrateInfo :
             applyBitrateInfoIfDetected(bitrateInfo,
                 [res EXCEPT !.txBitrate = bitrateInfo.bitrate]))
    ELSE IF startsWith(line, S_rxBitrate)
    THEN LetIn(parseBitrateLine(line), LAMBDA bitrateInfo :
             IF res.generation = WIFI_UNKNOWN
             THEN applyBitrateInfoIfDetected(bitrateInfo,
                      [res EXCEPT !.rxBitrate = bitrateInfo.bitrate])
             ELSE [res EXCEPT !.rxBitrate = bitrateInfo.bitrate])
    ELSE res

parseLine(line, res) ==
    LetIn(parseConnectionInfo(line, res), LAMBDA afterConnectionInfo :
        parseBitrateLines(line, afterConnectionInfo))

(***************************************************************************)
(* SpecDetect: detectWifiGeneration applied to one line.  The line is the  *)
(* tokens of dTokens joined by single spaces; dTokens records what was     *)
(* written into the line, independently of how the chain reads it back.    *)
(***************************************************************************)
MaxTokens == 3

DetectTokens == {
    [kind |-> "EHT-MCS", n |-> Some(Num(13)),
     text |-> <<"E","H","T","-","M","C","S"," ","1","3">>],
    [kind |-> "HE-MCS", n |-> Some(Num(11)),
     text |-> <<"H","E","-","M","C","S"," ","1","1">>],
    [kind |-> "VHT-MCS", n |-> Some(Num(9)),
     text |-> <<"V","H","T","-","M","C","S"," ","9">>],
    [kind |-> "MCS", n |-> Some(Num(7)),
     text |-> <<"M","C","S"," ","7">>],
    [kind |-> "MCS", n |-> Some(Num(8)),
     text |-> <<"M","C","S"," ","8">>],
    [kind |-> "MCS", n |-> Some(Num(16)),
     text |-> <<"M","C","S"," ","1","6">>],
    [kind |-> "EHT-NSS", n |-> Some(Num(2)),
     text |-> <<"E","H","T","-","N","S","S"," ","2">>],
    [kind |-> "HE-NSS", n |-> Some(Num(3)),
     text |-> <<"H","E","-","N","S","S"," ","3">>],
    [kind |-> "VHT-NSS", n |-> Some(Num(1)),
     text |-> <<"V","H","T","-","N","S","S"," ","1">>],
    [kind |-> "EHT-GI", n |-> Some(Num(0)),
     text |-> <<"E","H","T","-","G","I"," ","0">>],
    [kind |-> "EHT-GI", n |-> Some(Num(2)),
     text |-> <<"E","H","T","-","G","I"," ","2">>],
    [kind |-> "HE-GI", n |-> Some(Num(1)),
     text |-> <<"H","E","-","G","I"," ","1">>],
    [kind |-> "EHT-GI", n |-> Some(Num(1)),
     text |-> <<"E","H","T","-","G","I"," ","1">>],
    [kind |-> "EHT-GI", n |-> Some(Num(3)),
     text |-> <<"E","H","T","-","G","I"," ","3">>],
    [kind |-> "HE-GI", n |-> Some(Num(0)),
     text |-> <<"H","E","-","G","I"," ","0">>],
    [kind |-> "HE-GI", n |-> Some(Num(2)),
     text |-> <<"H","E","-","G","I"," ","2">>],
    [kind |-> "HE-GI", n |-> Some(Num(5)),
     text |-> <<"H","E","-","G","I"," ","5">>],
    [kind |-> "short GI", n |-> Null,
     text |-> <<"s","h","o","r","t"," ","G","I">>],
    [kind |-> "X-MCS", n |-> Some(Num(4)),
     text |-> <<"X","-","M","C","S"," ","4">>],
    [kind |-> "MCS", n |-> Null,
     text |-> <<"M","C","S">>]
}

RECURSIVE JoinTokens(_)
JoinTokens(ts) ==
    IF ts = <<>> THEN <<>>
    ELSE IF Len(ts) = 1 THEN ts[1].text
    ELSE ts[1].text \o <<" ">> \o JoinTokens(Tail(ts))

SeqsUpTo(S, n) == UNION {[1..k -> S] : k \in 0..n}

\* the variables of the other specifications, at rest
DetectIdle ==
    /\ dTokens = <<>>
    /\ dLine = <<>>
    /\ dPc = "idle"
    /\ dResult = Null

LinkIdle ==
    /\ lSrc = <<>>
    /\ iwOutput = <<>>
    /\ lLines = <<>>
    /\ lIdx = 0
    /\ result = Null
    /\ lPc = "off"
    /\ lRet = Null
    /\ ePc = "off"
    /\ eRet = Null
    /\ eOutcome = "none"

ScanIdle ==
    /\ sSrc = [pre |-> "none", blocks |-> <<>>]
    /\ output = <<>>
    /\ sPc = "off"
    /\ sRet = Null

ServiceIdle ==
    /\ client = FALSE
    /\ watchedDevice = FALSE
    /\ generationMap = EmptyMap
    /\ inflight = 0
    /\ svcLog = <<>>

ClassifyIdle ==
    /\ fnName = "none"
    /\ fnArgs = <<>>
    /\ fnPc = "off"
    /\ fnRet = Null

NetworksIdle ==
    /\ wifiDevice = Null
    /\ excludeSsid = Null
    /\ nPc = "off"
    /\ loopLog = <<>>
    /\ networks = <<>>
    /\ nRet = Null

MaxEnables == 3
MaxRefreshing == 3

\* extension.ts, lines 101-128 and 451: the fields of a new WifiSignalPlusExtension
ExtensionIdle ==
    /\ enableEpoch = 0
    /\ wifiService = Null
    /\ indicator = Null
    /\ refreshTimeout = Null
    /\ backgroundScanTimeout = Null
    /\ isMenuOpen = FALSE
    /\ refreshPending = FALSE
    /\ watching = {}
    /\ inits = [e \in 1..MaxEnables |-> "none"]
    /\ refreshing = [at \in {"getConnectionInfo", "updateAccessPoints", "updateNearbyNetworks"} |-> 0]
    /\ lastCall = "none"
    /\ indicatorsCreated = [e \in 1..MaxEnables |-> 0]

DetectInit ==
    /\ dTokens \in SeqsUpTo(DetectTokens, MaxTokens)
    /\ dLine = JoinTokens(dTokens)
    /\ dPc = "call"
    /\ dResult = Null
    /\ LinkIdle
    /\ ScanIdle
    /\ ServiceIdle
    /\ ClassifyIdle
    /\ NetworksIdle
    /\ ExtensionIdle

\* one call of detectWifiGeneration(dLine)
Detect ==
    /\ dPc = "call"
    /\ dResult' = Some(detectWifiGeneration(dLine))
    /\ dPc' = "done"
    /\ UNCHANGED <<dTokens, dLine, linkVars, scanVars, svcVars, fnVars, netVars, extVars>>

DetectNext == Detect

SpecDetect == DetectInit /\ [][DetectNext]_vars

(***************************************************************************)
(* SpecLink: parseIwLinkOutput called on a text.  SpecExec: executeIwLink  *)
(* (wifiInfo.ts), which runs iw and hands its stdout to parseIwLinkOutput. *)
(* The text is the lines of lSrc joined by "\n"; cat is the field the line *)
(* is about, form says whether its payload has the expected form, nc       *)
(* whether it holds "Not connected", and marker is the generation of the   *)
(* newest modulation marker written into it (0 when it has none).          *)
(***************************************************************************)
MaxLinkLines == 3
MaxExecLines == 2

LinkLines == {
    [cat |-> "ssid", form |-> "ok", nc |-> FALSE, marker |-> 0,
     text |-> <<"\t","S","S","I","D",":"," ","a","b">>],
    [cat |-> "ssid", form |-> "ok", nc |-> TRUE, marker |-> 0,
     text |-> <<"S","S","I","D",":"," ","N","o","t"," ","c","o","n","n","e","c","t","e","d">>],
    [cat |-> "other", form |-> "ok", nc |-> TRUE, marker |-> 0,
     text |-> <<"N","o","t"," ","c","o","n","n","e","c","t","e","d",".">>],
    [cat |-> "bssid", form |-> "ok", nc |-> FALSE, marker |-> 0,
     text |-> <<"C","o","n","n","e","c","t","e","d"," ","t","o"," ","0","A",":","b","1"," ","(","o","n"," ","w",")">>],
    [cat |-> "bssid", form |-> "bad", nc |-> FALSE, marker |-> 0,
     text |-> <<"C","o","n","n","e","c","t","e","d"," ","t","o"," ","x","y">>],
    [cat |-> "freq", form |-> "ok", nc |-> FALSE, marker |-> 0,
     text |-> <<"\t","f","r","e","q",":"," ","5","1","8","0">>],
    [cat |-> "freq", form |-> "ok", nc |-> FALSE, marker |-> 0,
     text |-> <<"f","r","e","q",":"," ","2","4","3","7",".","0">>],
    [cat |-> "freq", form |-> "bad", nc |-> FALSE, marker |-> 0,
     text |-> <<"f","r","e","q",":"," ","x">>],
    [cat |-> "signal", form |-> "ok", nc |-> FALSE, marker |-> 0,
     text |-> <<"\t","s","i","g","n","a","l",":"," ","-","3","9"," ","d","B","m">>],
    [cat |-> "signal", form |-> "bad", nc |-> FALSE, marker |-> 0,
     text |-> <<"s","i","g","n","a","l",":"," ","x">>],
    [cat |-> "tx", form |-> "ok", nc |-> FALSE, marker |-> 6,
     text |-> <<"\t","t","x"," ","b","i","t","r","a","t","e",":"," ","5","7","3",".","5"," ","M","B","i","t","/","s"," ","4","0","M","H","z"," ","H","E","-","M","C","S"," ","1","1"," ","H","E","-","N","S","S"," ","2"," ","H","E","-","G","I"," ","1">>],
    [cat |-> "tx", form |-> "ok", nc |-> FALSE, marker |-> 0,
     text |-> <<"t","x"," ","b","i","t","r","a","t","e",":"," ","1","1",".","0"," ","M","B","i","t","/","s"," ","2","0","M","H","z">>],
    [cat |-> "tx", form |-> "ok", nc |-> FALSE, marker |-> 4,
     text |-> <<"t","x"," ","b","i","t","r","a","t","e",":"," ","6",".","5"," ","M","B","i","t","/","s"," ","M","C","S"," ","0">>],
    [cat |-> "tx", form |-> "bad", nc |-> FALSE, marker |-> 0,
     text |-> <<"t","x"," ","b","i","t","r","a","t","e",":"," ","x">>],
    [cat |-> "rx", form |-> "ok", nc |-> FALSE, marker |-> 5,
     text |-> <<"\t","r","x"," ","b","i","t","r","a","t","e",":"," ","8","6","6",".","7"," ","M","B","i","t","/","s"," ","8","0","M","H","z"," ","V","H","T","-","M","C","S"," ","9"," ","s","h","o","r","t"," ","G","I"," ","V","H","T","-","N","S","S"," ","2">>],
    [cat |-> "rx", form |-> "ok", nc |-> FALSE, marker |-> 0,
     text |-> <<"r","x"," ","b","i","t","r","a","t","e",":"," ","5","4",".","0"," ","M","B","i","t","/","s">>],
    [cat |-> "rx", form |-> "bad", nc |-> FALSE, marker |-> 0,
     text |-> <<"r","x"," ","b","i","t","r","a","t","e",":"," ","x">>],
    [cat |-> "other", form |-> "ok", nc |-> FALSE, marker |-> 0,
     text |-> <<"R","X",":"," ","1","2"," ","b","y","t","e","s">>]
}

RECURSIVE JoinLines(_)
JoinLines(ls) ==
    IF ls = <<>> THEN <<>>
    ELSE IF Len(ls) = 1 THEN ls[1].text
    ELSE ls[1].text \o <<"\n">> \o JoinLines(Tail(ls))

LinkInit ==
    /\ lSrc \in SeqsUpTo(LinkLines, MaxLinkLines)
    /\ iwOutput = JoinLines(lSrc)
    /\ lLines = <<>>
    /\ lIdx = 0
    /\ result = Null
    /\ lPc = "call"
    /\ lRet = Null
    /\ ePc = "off"
    /\ eRet = Null
    /\ eOutcome = "none"
    /\ DetectIdle
    /\ ScanIdle
    /\ ServiceIdle
    /\ ClassifyIdle
    /\ NetworksIdle
    /\ ExtensionIdle

\* mutant: the marker is looked for at the start of the text only
EarlyReturn_Prefix(text) == text = <<>> \/ startsWith(text, S_NotConnected)

\* parseIwLinkOutput, line 123: !iwOutput || iwOutput.includes('Not connected')
EarlyReturn(text) == text = <<>> \/ includes(text, S_NotConnected)

\* parseIwLinkOutput, lines 123-129: the early return, or the start of the loop
ParseEntry ==
    /\ lPc = "call"
    /\ IF EarlyReturn(iwOutput)
       THEN /\ lRet' = Some(createEmptyIwLinkInfo)
            /\ lPc' = "returned"
            /\ UNCHANGED <<result, lLines, lIdx>>
       ELSE /\ result' = Some(createMutableResult)
            /\ lLines' = split(iwOutput, "\n")
            /\ lIdx' = 1
            /\ lPc' = "loop"
            /\ UNCHANGED lRet
    /\ UNCHANGED <<lSrc, iwOutput, ePc, eRet, eOutcome, detectVars, scanVars, svcVars, fnVars, netVars, extVars>>

\* one iteration of the for loop: parseLine(line.trim(), result)
ParseLineStep ==
    /\ lPc = "loop"
    /\ lIdx <= Len(lLines)
    /\ \E line \in {trim(lLines[lIdx])} : result' = Some(parseLine(line, Val(result)))
    /\ lIdx' = lIdx + 1
    /\ UNCHANGED <<lSrc, iwOutput, lLines, lPc, lRet, ePc, eRet, eOutcome, detectVars, scanVars, svcVars, fnVars, netVars, extVars>>

\* after the loop: detectLegacyGeneration(result); return freezeResult(result).
\* Both mutate the one result object, which is the object returned.
ParseFinish ==
    /\ lPc = "loop"
    /\ lIdx > Len(lLines)
    /\ lRet' = Some(freezeResult(detectLegacyGeneration(Val(result))))
    /\ result' = Some(freezeResult(detectLegacyGeneration(Val(result))))
    /\ lPc' = "returned"
    /\ UNCHANGED <<lSrc, iwOutput, lLines, lIdx, ePc, eRet, eOutcome, detectVars, scanVars, svcVars, fnVars, netVars, extVars>>

LinkNext == ParseEntry \/ ParseLineStep \/ ParseFinish

SpecLink == LinkInit /\ [][LinkNext]_vars

\* parseIwLinkOutput over the texts made of one well-formed line per recognized
\* prefix, every tx and rx line, and the 'Not connected.' line
OrderLines ==
    {l \in LinkLines :
        \/ l.cat \in {"tx", "rx"}
        \/ l.form = "ok" /\ ((l.cat = "other") <=> l.nc)}

LinkOrderInit ==
    /\ lSrc \in SeqsUpTo(OrderLines, MaxLinkLines)
    /\ iwOutput = JoinLines(lSrc)
    /\ lLines = <<>>
    /\ lIdx = 0
    /\ result = Null
    /\ lPc = "call"
    /\ lRet = Null
    /\ ePc = "off"
    /\ eRet = Null
    /\ eOutcome = "none"
    /\ DetectIdle
    /\ ScanIdle
    /\ ServiceIdle
    /\ ClassifyIdle
    /\ NetworksIdle
    /\ ExtensionIdle

SpecLinkOrder == LinkOrderInit /\ [][LinkNext]_vars

(***************************************************************************)
(* executeIwLink (wifiInfo.ts): the subprocess is an external collaborator *)
(* whose every outcome is possible.                                        *)
(***************************************************************************)
ExecInit ==
    /\ lSrc \in SeqsUpTo(LinkLines, MaxExecLines)
    /\ iwOutput = JoinLines(lSrc)
    /\ lLines = <<>>
    /\ lIdx = 0
    /\ result = Null
    /\ lPc = "off"
    /\ lRet = Null
    /\ ePc = "call"
    /\ eRet = Null
    /\ eOutcome = "none"
    /\ DetectIdle
    /\ ScanIdle
    /\ ServiceIdle
    /\ ClassifyIdle
    /\ NetworksIdle
    /\ ExtensionIdle

\* line 281 (and 265): return createEmptyIwLinkInfo()
ReturnEmpty(why) ==
    /\ eRet' = Some(createEmptyIwLinkInfo)
    /\ ePc' = "returned"
    /\ eOutcome' = why

\* an exception thrown at a statement: caught by the catch of lines 277-279 when
\* the statement is inside the try block, after which control reaches line 281;
\* otherwise the promise of the async function rejects
\* mutant: the subprocess is created before the try block is entered
SpawnOutsideTry == FALSE

SpawnInsideTry == TRUE
CommunicateInsideTry == TRUE

Throw(insideTry, why) ==
    IF insideTry THEN ReturnEmpty(why)
    ELSE /\ ePc' = "rejected"
         /\ eOutcome' = why
         /\ UNCHANGED eRet

\* lines 263-266
ExecCall ==
    /\ ePc = "call"
    /\ \E interfaceName \in {Null, Some(<<"w">>)} :
          IF interfaceName = Null
          THEN ReturnEmpty("interface_null")
          ELSE ePc' = "spawn" /\ UNCHANGED <<eRet, eOutcome>>
    /\ UNCHANGED <<lSrc, iwOutput, lLines, lIdx, result, lPc, lRet, detectVars, scanVars, svcVars, fnVars, netVars, extVars>>

\* lines 269-272: Gio.Subprocess.new succeeds or throws
ExecSpawn ==
    /\ ePc = "spawn"
    /\ \E throws \in BOOLEAN :
          IF throws
          THEN Throw(SpawnInsideTry, "spawn_failed")
          ELSE ePc' = "await" /\ UNCHANGED <<eRet, eOutcome>>
    /\ UNCHANGED <<lSrc, iwOutput, lLines, lIdx, result, lPc, lRet, detectVars, scanVars, svcVars, fnVars, netVars, extVars>>

\* lines 273-276: the awaited communicate_utf8_async throws, or resolves with
\* the stdout of a process that exited successfully or not
ExecCommunicate ==
    /\ ePc = "await"
    /\ \E outcome \in {"throws", "exit_failure", "exit_success"} :
          IF outcome = "throws"
          THEN Throw(CommunicateInsideTry, "communicate_failed") /\ UNCHANGED lPc
          ELSE LET successful == outcome = "exit_success"
                   stdout == iwOutput
               IN  IF successful /\ stdout # <<>>
                   THEN /\ lPc' = "call"
                        /\ ePc' = "parsing"
                        /\ eOutcome' = "parsed"
                        /\ UNCHANGED eRet
                   ELSE /\ ReturnEmpty(IF successful THEN "stdout_empty"
                                       ELSE "exit_unsuccessful")
                        /\ UNCHANGED lPc
    /\ UNCHANGED <<lSrc, iwOutput, lLines, lIdx, result, lRet, detectVars, scanVars, svcVars, fnVars, netVars, extVars>>

\* line 275: return parseIwLinkOutput(stdout)
ExecReturnParsed ==
    /\ ePc = "parsing"
    /\ lPc = "returned"
    /\ eRet' = lRet
    /\ ePc' = "returned"
    /\ UNCHANGED <<lSrc, iwOutput, lLines, lIdx, result, lPc, lRet, eOutcome, detectVars, scanVars, svcVars, fnVars, netVars, extVars>>

ExecNext ==
    \/ ExecCall
    \/ ExecSpawn
    \/ ExecCommunicate
    \/ ExecReturnParsed
    \/ ParseEntry
    \/ ParseLineStep
    \/ ParseFinish

SpecExec == ExecInit /\ [][ExecNext]_vars

(***************************************************************************)
(* The scan dump parser (wifiGeneration.ts)                                *)
(***************************************************************************)
S_BSS == <<"B","S","S"," ">>
S_EHT_capabilities == <<"E","H","T"," ","c","a","p","a","b","i","l","i","t","i","e","s">>
S_HE_capabilities == <<"H","E"," ","c","a","p","a","b","i","l","i","t","i","e","s">>
S_VHT_capabilities == <<"V","H","T"," ","c","a","p","a","b","i","l","i","t","i","e","s">>
S_VHT_operation == <<"V","H","T"," ","o","p","e","r","a","t","i","o","n">>
S_HT_capabilities == <<"H","T"," ","c","a","p","a","b","i","l","i","t","i","e","s">>
S_HT_operation == <<"H","T"," ","o","p","e","r","a","t","i","o","n">>

MAC_LENGTH == 17

\* mutant: the matchers are tried oldest first
detectScanGeneration_OldestFirst(block) ==
    IF includes(block, S_HT_capabilities) \/ includes(block, S_HT_operation) THEN WIFI_4
    ELSE IF includes(block, S_VHT_capabilities) \/ includes(block, S_VHT_operation) THEN WIFI_5
    ELSE IF includes(block, S_HE_capabilities) THEN WIFI_6
    ELSE IF includes(block, S_EHT_capabilities) THEN WIFI_7
    ELSE WIFI_UNKNOWN

detectScanGeneration(block) ==
    IF includes(block, S_EHT_capabilities) THEN WIFI_7
    ELSE IF includes(block, S_HE_capabilities) THEN WIFI_6
    ELSE IF includes(block, S_VHT_capabilities) \/ includes(block, S_VHT_operation) THEN WIFI_5
    ELSE IF includes(block, S_HT_capabilities) \/ includes(block, S_HT_operation) THEN WIFI_4
    ELSE WIFI_UNKNOWN

\* the positions at which /^BSS /m matches: a "BSS " at the start of a line
BssPositions(s) ==
    {q \in 1..Len(s) : startsWithAt(s, q, S_BSS) /\ (q = 1 \/ s[q - 1] = "\n")}

\* output.split(/^BSS /m): the text before the first match, then the text
\* between each match and the next
splitBss(s) ==
    LetIn(BssPositions(s), LAMBDA at :
        LET nth(k) == CHOOSE q \in at : Cardinality({r \in at : r <= q}) = k
            n == Cardinality(at)
        IN  [k \in 1..(n + 1) |->
                SubSeq(s,
                       IF k = 1 THEN 1 ELSE nth(k - 1) + Len(S_BSS),
                       IF k = n + 1 THEN Len(s) ELSE nth(k) - 1)])

\* block.match(/^([0-9a-f:]{17})/i): the first 17 characters when they are
\* all hexadecimal digits or colons
bssidMatch(block) ==
    IF Len(block) >= MAC_LENGTH /\ \A i \in 1..MAC_LENGTH : block[i] \in HexColon
    THEN Some(SubSeq(block, 1, MAC_LENGTH))
    ELSE Null

\* mutant: the BSSID is the key as it is written
bssidKey_AsWritten(match) == match

\* bssidMatch[1].toLowerCase()
bssidKey(match) == toLowerCase(match)

\* Map.prototype.set and Map.prototype.size
MapSet(map, key, value) ==
    [k \in (DOMAIN map) \cup {key} |-> IF k = key THEN value ELSE map[k]]
MapSize(map) == Cardinality(DOMAIN map)

\* the Map after the for loop has gone through the first n blocks
RECURSIVE ScanBlocks(_, _)
ScanBlocks(bssBlocks, n) ==
    IF n = 0 THEN EmptyMap
    ELSE LetIn(ScanBlocks(bssBlocks, n - 1), LAMBDA res :
         LetIn(bssBlocks[n], LAMBDA block :
         LetIn(bssidMatch(block), LAMBDA match :
             IF match = Null THEN res
             ELSE MapSet(res, bssidKey(Val(match)), detectScanGeneration(block)))))

parseIwScanDump(text) ==
    IF text = <<>> THEN EmptyMap
    ELSE LetIn(splitBss(text), LAMBDA bssBlocks : ScanBlocks(bssBlocks, Len(bssBlocks)))

(***************************************************************************)
(* SpecScan: parseIwScanDump called on a dump.  The dump is a preamble     *)
(* (the text before the first block) followed by blocks; a block is        *)
(* "BSS ", a head, "(on w)" and one indented line per header.  The head   *)
(* "nonhex" has a letter that is no hexadecimal digit in 17th place.       *)
(***************************************************************************)
MaxBlocks == 2

\* what a block starts with, by name
ScanHeads == {"upper", "lower", "mixed", "nonhex"}

HeadText(h) ==
    CASE h = "upper" -> <<"A","A",":","B","B",":","C","C",":","D","D",":","E","E",":","0","1">>
      [] h = "lower" -> <<"a","a",":","b","b",":","c","c",":","d","d",":","e","e",":","0","1">>
      [] h = "mixed" -> <<"0","a",":","1","B",":","2","c",":","3","D",":","4","e",":","5","F">>
      [] h = "nonhex" -> <<"a","a",":","b","b",":","c","c",":","d","d",":","e","e",":","0","g">>

\* the key a block with that head is to be recorded under, if any
HeadKey(h) ==
    CASE h = "upper" -> <<<<"a","a",":","b","b",":","c","c",":","d","d",":","e","e",":","0","1">>>>
      [] h = "lower" -> <<<<"a","a",":","b","b",":","c","c",":","d","d",":","e","e",":","0","1">>>>
      [] h = "mixed" -> <<<<"0","a",":","1","b",":","2","c",":","3","d",":","4","e",":","5","f">>>>
      [] h = "nonhex" -> <<>>

\* the section headers of a block, by name
HeaderText(h) ==
    CASE h = "EHTcap" -> S_EHT_capabilities
      [] h = "HEcap" -> S_HE_capabilities
      [] h = "VHTcap" -> S_VHT_capabilities
      [] h = "VHTop" -> S_VHT_operation
      [] h = "HTcap" -> S_HT_capabilities
      [] h = "HTop" -> S_HT_operation
      [] h = "BSSLoad" -> <<"B","S","S"," ","L","o","a","d">>

GenerationHeaders == {"EHTcap", "HEcap", "VHTcap", "VHTop", "HTcap", "HTop"}

ScanHeaderLists == {
    <<>>,
    <<"HTcap">>,
    <<"HTop", "BSSLoad">>,
    <<"VHTcap">>,
    <<"VHTop", "HTop">>,
    <<"HTcap", "HEcap">>,
    <<"HTcap", "VHTcap", "HEcap", "EHTcap">>
}

ScanBlockDescriptors == [head : ScanHeads, hdrs : ScanHeaderLists]

\* the preambles: none, a line of text, a line that starts like a MAC address
ScanPreambles == {"none", "junk", "mac"}

PreambleText(q) ==
    CASE q = "none" -> <<>>
      [] q = "junk" -> <<"j","u","n","k","\n">>
      [] q = "mac" -> <<"a","a",":","b","b",":","c","c",":","d","d",":","e","e",":","9","9"," ","x","\n">>

PreambleKey(q) ==
    IF q = "mac" THEN <<<<"a","a",":","b","b",":","c","c",":","d","d",":","e","e",":","9","9">>>> ELSE <<>>

HeaderLine(h) == <<"\t">> \o HeaderText(h) \o <<":", "\n">>

RECURSIVE HeaderLines(_)
HeaderLines(hs) == IF hs = <<>> THEN <<>> ELSE HeaderLine(Head(hs)) \o HeaderLines(Tail(hs))

\* a block without its "BSS "
BlockBody(b) == HeadText(b.head) \o <<"(","o","n"," ","w",")","\n">> \o HeaderLines(b.hdrs)

RECURSIVE JoinBlocks(_)
JoinBlocks(bs) ==
    IF bs = <<>> THEN <<>> ELSE S_BSS \o BlockBody(Head(bs)) \o JoinBlocks(Tail(bs))

DumpText(src) == PreambleText(src.pre) \o JoinBlocks(src.blocks)

ScanInit ==
    /\ sSrc \in [pre : ScanPreambles, blocks : SeqsUpTo(ScanBlockDescriptors, MaxBlocks)]
    /\ output = DumpText(sSrc)
    /\ sPc = "call"
    /\ sRet = Null
    /\ DetectIdle
    /\ LinkIdle
    /\ ServiceIdle
    /\ ClassifyIdle
    /\ NetworksIdle
    /\ ExtensionIdle

\* one call of parseIwScanDump(output)
ScanCall ==
    /\ sPc = "call"
    /\ sRet' = Some(parseIwScanDump(output))
    /\ sPc' = "returned"
    /\ UNCHANGED <<sSrc, output, detectVars, linkVars, svcVars, fnVars, netVars, extVars>>

ScanNext == ScanCall

SpecScan == ScanInit /\ [][ScanNext]_vars

(***************************************************************************)
(* SpecService: the generation cache of WifiInfoService (wifiInfo.ts).     *)
(* NetworkManager and the iw subprocess are external collaborators whose   *)
(* every outcome is possible.                                              *)
(***************************************************************************)
MaxLog == 3
MaxInflight == 2

\* the stdout a dump can produce, with the entries written into it
DumpOutputs == {
    [text |-> <<>>, entries |-> <<>>],
    [text |-> <<"j","u","n","k","\n">>, entries |-> <<>>],
    [text |-> <<"B","S","S"," ","A","A",":","B","B",":","C","C",":","D","D",":","E","E",":","0","1","(","o","n"," ","w",")","\n","\t","H","T"," ","c","a","p","a","b","i","l","i","t","i","e","s",":","\n","\t","H","E"," ","c","a","p","a","b","i","l","i","t","i","e","s",":","\n">>,
     entries |-> (<<"a","a",":","b","b",":","c","c",":","d","d",":","e","e",":","0","1">> :> 6)],
    [text |-> <<"B","S","S"," ","0","a",":","1","B",":","2","c",":","3","D",":","4","e",":","5","F","(","o","n"," ","w",")","\n","\t","H","T"," ","c","a","p","a","b","i","l","i","t","i","e","s",":","\n","B","S","S"," ","a","a",":","b","b",":","c","c",":","d","d",":","e","e",":","0","1","(","o","n"," ","w",")","\n","\t","V","H","T"," ","c","a","p","a","b","i","l","i","t","i","e","s",":","\n">>,
     entries |-> (<<"0","a",":","1","b",":","2","c",":","3","d",":","4","e",":","5","f">> :> 4) @@ (<<"a","a",":","b","b",":","c","c",":","d","d",":","e","e",":","0","1">> :> 5)]
}

NoOutput == [text |-> <<>>, entries |-> <<>>]

ServiceInit ==
    /\ client = FALSE
    /\ watchedDevice = FALSE
    /\ generationMap = EmptyMap
    /\ inflight = 0
    /\ svcLog = <<>>
    /\ DetectIdle
    /\ LinkIdle
    /\ ScanIdle
    /\ ClassifyIdle
    /\ NetworksIdle
    /\ ExtensionIdle

\* init(): the callback of NM.Client.new_async sets this.client
ClientReady ==
    /\ ~client
    /\ client' = TRUE
    /\ UNCHANGED <<watchedDevice, generationMap, inflight, svcLog, detectVars, linkVars, scanVars, fnVars, netVars, extVars>>

\* watchDeviceSignals(callback): the signals of the device findWifiDevice
\* finds, if any, are connected
WatchDeviceSignals ==
    /\ \E deviceFound \in BOOLEAN : watchedDevice' = (client /\ deviceFound)
    /\ UNCHANGED <<client, generationMap, inflight, svcLog, detectVars, linkVars, scanVars, fnVars, netVars, extVars>>

\* mutant: the fresh map replaces the cache whatever its size
ShouldSwap_Always(freshMap) == TRUE

\* executeIwScanDump, line 221: freshMap.size > 0
ShouldSwap(freshMap) == MapSize(freshMap) > 0

\* notify::last-scan: onScanCompleted() returns when there is no device or no
\* interface name; otherwise it calls executeIwScanDump, where Subprocess.new
\* throws (caught: the dump has failed to run) or the call suspends at its await
OnScanCompleted ==
    /\ watchedDevice
    /\ \E deviceFound \in BOOLEAN, hasInterfaceName \in BOOLEAN, spawnThrows \in BOOLEAN :
          IF ~(client /\ deviceFound) \/ ~hasInterfaceName
          THEN UNCHANGED <<inflight, svcLog>>
          ELSE IF spawnThrows
          THEN /\ Len(svcLog) < MaxLog
               /\ svcLog' = Append(svcLog, [kind |-> "spawn_failed", out |-> NoOutput])
               /\ UNCHANGED inflight
          ELSE /\ inflight < MaxInflight
               /\ inflight' = inflight + 1
               /\ UNCHANGED svcLog
    /\ UNCHANGED <<client, watchedDevice, generationMap, detectVars, linkVars, scanVars, fnVars, netVars, extVars>>

\* executeIwScanDump from its await on: communicate_utf8_async throws, or
\* resolves with the stdout of a process that exited successfully or not
DumpCompletes ==
    /\ inflight > 0
    /\ Len(svcLog) < MaxLog
    /\ \E outcome \in {"throws", "exit_failure", "exit_success"}, out \in DumpOutputs :
          /\ outcome = "throws" => out = NoOutput
          /\ LET successful == outcome = "exit_success"
                 stdout == out.text
             IN  generationMap' =
                     IF successful /\ stdout # <<>>
                     THEN LetIn(parseIwScanDump(stdout), LAMBDA freshMap :
                              IF ShouldSwap(freshMap) THEN freshMap ELSE generationMap)
                     ELSE generationMap
          /\ svcLog' = Append(svcLog, [kind |-> outcome, out |-> out])
    /\ inflight' = inflight - 1
    /\ UNCHANGED <<client, watchedDevice, detectVars, linkVars, scanVars, fnVars, netVars, extVars>>

\* destroy()
Destroy ==
    /\ Len(svcLog) < MaxLog
    /\ watchedDevice' = FALSE
    /\ client' = FALSE
    /\ generationMap' = EmptyMap
    /\ svcLog' = Append(svcLog, [kind |-> "destroy", out |-> NoOutput])
    /\ UNCHANGED <<inflight, detectVars, linkVars, scanVars, fnVars, netVars, extVars>>

ServiceNext ==
    \/ ClientReady
    \/ WatchDeviceSignals
    \/ OnScanCompleted
    \/ DumpCompletes
    \/ Destroy

SpecService == ServiceInit /\ [][ServiceNext]_vars

(***************************************************************************)
(* wifiInfo.ts: the security label of an access point.  An access point is *)
(* a record of what its getters return; the flag masks are unsigned and    *)
(* below 2^31, where the & of JavaScript is the bitwise and of naturals.   *)
(***************************************************************************)
AP_SECURITY_NONE == 0
KEY_MGMT_PSK == 256
KEY_MGMT_802_1X == 512
KEY_MGMT_SAE == 1024

\* a & b
RECURSIVE BitAnd(_, _)
BitAnd(a, b) ==
    IF a = 0 \/ b = 0 THEN 0
    ELSE (a % 2) * (b % 2) + 2 * BitAnd(a \div 2, b \div 2)

\* protocols.includes(p)
arrayIncludes(protocols, p) == \E i \in 1..Len(protocols) : protocols[i] = p

detectSecurityProtocols_WpaFirst(wpaFlags, rsnFlags) ==
    LetIn(IF BitAnd(wpaFlags, KEY_MGMT_802_1X) # 0 THEN <<"WPA-Enterprise">>
          ELSE IF BitAnd(wpaFlags, KEY_MGMT_PSK) # 0 THEN <<"WPA">>
          ELSE <<>>,
      LAMBDA p1 :
    LetIn(IF BitAnd(rsnFlags, KEY_MGMT_SAE) # 0 THEN Append(p1, "WPA3") ELSE p1,
      LAMBDA p2 :
        IF BitAnd(rsnFlags, KEY_MGMT_802_1X) # 0 THEN Append(p2, "WPA2-Enterprise")
        ELSE IF BitAnd(rsnFlags, KEY_MGMT_PSK) # 0 THEN Append(p2, "WPA2")
        ELSE p2))

detectSecurityProtocols(wpaFlags, rsnFlags) ==
    LetIn(IF BitAnd(rsnFlags, KEY_MGMT_SAE) # 0 THEN <<"WPA3">> ELSE <<>>,
      LAMBDA p1 :
    LetIn(IF BitAnd(rsnFlags, KEY_MGMT_802_1X) # 0 THEN Append(p1, "WPA2-Enterprise")
          ELSE IF BitAnd(rsnFlags, KEY_MGMT_PSK) # 0 THEN Append(p1, "WPA2")
          ELSE p1,
      LAMBDA p2 :
        IF BitAnd(wpaFlags, KEY_MGMT_802_1X) # 0 /\ ~arrayIncludes(p2, "WPA2-Enterprise")
        THEN Append(p2, "WPA-Enterprise")
        ELSE IF BitAnd(wpaFlags, KEY_MGMT_PSK) # 0 THEN Append(p2, "WPA")
        ELSE p2))

getSecurityProtocol(ap) ==
    LetIn(detectSecurityProtocols(ap.wpaFlags, ap.rsnFlags),
      LAMBDA protocols :
        IF Len(protocols) = 0
        THEN IF ap.wpaFlags = AP_SECURITY_NONE /\ ap.rsnFlags = AP_SECURITY_NONE
             THEN "Open"
             ELSE "Unknown"
        ELSE protocols[1])

(***************************************************************************)
(* wifiInfo.ts: channel number and band of a frequency                     *)
(***************************************************************************)
\* Math.round(a / b) for a number a and a positive whole divisor b: the
\* nearest integer, a half going up
MathRoundDiv(a, b) == (2 * a + Num(b)) \div (2 * Num(b))

frequencyToChannel_No14(frequency) ==
    LetIn(frequency, LAMBDA freq :
        IF freq >= Num(2412) /\ freq <= Num(2484)
        THEN Num(MathRoundDiv(freq - Num(2412), 5) + 1)
        ELSE IF freq >= Num(5170) /\ freq <= Num(5825)
        THEN Num(MathRoundDiv(freq - Num(5000), 5))
        ELSE IF freq >= Num(5955) /\ freq <= Num(7115)
        THEN Num(MathRoundDiv(freq - Num(5950), 5))
        ELSE Num(0))

\* mutant: the 5 GHz channels go on up to 5900 MHz
frequencyToChannel_UpTo5900(frequency) ==
    LetIn(frequency, LAMBDA freq :
        IF freq >= Num(2412) /\ freq <= Num(2484)
        THEN IF freq = Num(2484)
             THEN Num(14)
             ELSE Num(MathRoundDiv(freq - Num(2412), 5) + 1)
        ELSE IF freq >= Num(5170) /\ freq <= Num(5900)
        THEN Num(MathRoundDiv(freq - Num(5000), 5))
        ELSE IF freq >= Num(5955) /\ freq <= Num(7115)
        THEN Num(MathRoundDiv(freq - Num(5950), 5))
        ELSE Num(0))

frequencyToChannel(frequency) ==
    LetIn(frequency, LAMBDA freq :
        IF freq >= Num(2412) /\ freq <= Num(2484)
        THEN IF freq = Num(2484)
             THEN Num(14)
             ELSE Num(MathRoundDiv(freq - Num(2412), 5) + 1)
        ELSE IF freq >= Num(5170) /\ freq <= Num(5825)
        THEN Num(MathRoundDiv(freq - Num(5000), 5))
        ELSE IF freq >= Num(5955) /\ freq <= Num(7115)
        THEN Num(MathRoundDiv(freq - Num(5950), 5))
        ELSE Num(0))

frequencyToBand_Contiguous(frequency) ==
    LetIn(frequency, LAMBDA freq :
        IF freq >= Num(2400) /\ freq < Num(2500) THEN "2.4 GHz"
        ELSE IF freq >= Num(5150) /\ freq < Num(5925) THEN "5 GHz"
        ELSE IF freq >= Num(5925) /\ freq <= Num(7125) THEN "6 GHz"
        ELSE "Unknown")

\* mutant: the '6 GHz' label starts at 5975 MHz
frequencyToBand_From5975(frequency) ==
    LetIn(frequency, LAMBDA freq :
        IF freq >= Num(2400) /\ freq < Num(2500) THEN "2.4 GHz"
        ELSE IF freq >= Num(5150) /\ freq < Num(5900) THEN "5 GHz"
        ELSE IF freq >= Num(5975) /\ freq <= Num(7125) THEN "6 GHz"
        ELSE "Unknown")

frequencyToBand(frequency) ==
    LetIn(frequency, LAMBDA freq :
        IF freq >= Num(2400) /\ freq < Num(2500) THEN "2.4 GHz"
        ELSE IF freq >= Num(5150) /\ freq < Num(5900) THEN "5 GHz"
        ELSE IF freq >= Num(5925) /\ freq <= Num(7125) THEN "6 GHz"
        ELSE "Unknown")

(***************************************************************************)
(* types.ts: quality labels of a signal percentage and of a bitrate        *)
(***************************************************************************)
SIGNAL_PERCENT_THRESHOLDS ==
    [Excellent |-> Num(80), Good |-> Num(60), Fair |-> Num(40), Weak |-> Num(20)]

getSignalQualityFromPercent_Strict(signalPercent) ==
    LetIn(signalPercent, LAMBDA pct :
        IF pct > SIGNAL_PERCENT_THRESHOLDS.Excellent THEN "Excellent"
        ELSE IF pct > SIGNAL_PERCENT_THRESHOLDS.Good THEN "Good"
        ELSE IF pct > SIGNAL_PERCENT_THRESHOLDS.Fair THEN "Fair"
        ELSE IF pct > SIGNAL_PERCENT_THRESHOLDS.Weak THEN "Weak"
        ELSE "Poor")

getSignalQualityFromPercent(signalPercent) ==
    LetIn(signalPercent, LAMBDA pct :
        IF pct >= SIGNAL_PERCENT_THRESHOLDS.Excellent THEN "Excellent"
        ELSE IF pct >= SIGNAL_PERCENT_THRESHOLDS.Good THEN "Good"
        ELSE IF pct >= SIGNAL_PERCENT_THRESHOLDS.Fair THEN "Fair"
        ELSE IF pct >= SIGNAL_PERCENT_THRESHOLDS.Weak THEN "Weak"
        ELSE "Poor")

SPEED_THRESHOLDS ==
    [Excellent |-> Num(1000), VeryGood |-> Num(300), Good |-> Num(100),
     OK |-> Num(50), Weak |-> Num(20)]

getSpeedQuality_Strict(bitrate) ==
    LetIn(bitrate, LAMBDA mbps :
        IF mbps > SPEED_THRESHOLDS.Excellent THEN "Excellent"
        ELSE IF mbps > SPEED_THRESHOLDS.VeryGood THEN "VeryGood"
        ELSE IF mbps > SPEED_THRESHOLDS.Good THEN "Good"
        ELSE IF mbps > SPEED_THRESHOLDS.OK THEN "OK"
        ELSE IF mbps > SPEED_THRESHOLDS.Weak THEN "Weak"
        ELSE "Poor")

getSpeedQuality(bitrate) ==
    LetIn(bitrate, LAMBDA mbps :
        IF mbps >= SPEED_THRESHOLDS.Excellent THEN "Excellent"
        ELSE IF mbps >= SPEED_THRESHOLDS.VeryGood THEN "VeryGood"
        ELSE IF mbps >= SPEED_THRESHOLDS.Good THEN "Good"
        ELSE IF mbps >= SPEED_THRESHOLDS.OK THEN "OK"
        ELSE IF mbps >= SPEED_THRESHOLDS.Weak THEN "Weak"
        ELSE "Poor")

(***************************************************************************)
(* SpecClassify: one call of getSecurityProtocol, frequencyToChannel,      *)
(* frequencyToBand, getSignalQualityFromPercent or getSpeedQuality.  The   *)
(* flag masks are the sums of the subsets of SecurityBits: the three key   *)
(* management bits the code tests and two cipher bits it does not.         *)
(* Frequencies run over the multiples of 0.5 MHz up to MaxFrequency and    *)
(* one negative value; percentages and bitrates over every multiple of 0.1 *)
(* up to MaxPercent and MaxBitrate, percentages from -5 on.                *)
(***************************************************************************)
MaxFrequency == 7200
MaxPercent == 110
MaxBitrate == 1100

SecurityBits == {1, 8, KEY_MGMT_PSK, KEY_MGMT_802_1X, KEY_MGMT_SAE}

RECURSIVE SumOf(_)
SumOf(S) == IF S = {} THEN 0 ELSE LET x == CHOOSE y \in S : TRUE IN x + SumOf(S \ {x})

FlagMasks == {SumOf(B) : B \in SUBSET SecurityBits}

FrequencyInputs == {5 * k : k \in 0..(2 * MaxFrequency)} \cup {0 - Num(1)}

PercentInputs == (0 - Num(5))..Num(MaxPercent)

BitrateInputs == (0 - Num(1))..Num(MaxBitrate)

\* the call made: the function and its arguments
ClassifyCall(name, args) == fnName = name /\ fnArgs = args

ClassifyInit ==
    /\ \/ \E w \in FlagMasks, r \in FlagMasks :
            ClassifyCall("getSecurityProtocol", <<[wpaFlags |-> w, rsnFlags |-> r]>>)
       \/ \E f \in FrequencyInputs : ClassifyCall("frequencyToChannel", <<f>>)
       \/ \E f \in FrequencyInputs : ClassifyCall("frequencyToBand", <<f>>)
       \/ \E p \in PercentInputs : ClassifyCall("getSignalQualityFromPercent", <<p>>)
       \/ \E b \in BitrateInputs : ClassifyCall("getSpeedQuality", <<b>>)
    /\ fnPc = "call"
    /\ fnRet = Null
    /\ DetectIdle
    /\ LinkIdle
    /\ ScanIdle
    /\ ServiceIdle
    /\ NetworksIdle
    /\ ExtensionIdle

Returns(name, value) ==
    /\ fnPc = "call"
    /\ fnName = name
    /\ fnRet' = Some(value)
    /\ fnPc' = "done"
    /\ UNCHANGED <<fnName, fnArgs, detectVars, linkVars, scanVars, svcVars, netVars, extVars>>

CallGetSecurityProtocol ==
    /\ fnName = "getSecurityProtocol"
    /\ Returns("getSecurityProtocol", getSecurityProtocol(fnArgs[1]))

CallFrequencyToChannel ==
    /\ fnName = "frequencyToChannel"
    /\ Returns("frequencyToChannel", frequencyToChannel(fnArgs[1]))

CallFrequencyToBand ==
    /\ fnName = "frequencyToBand"
    /\ Returns("frequencyToBand", frequencyToBand(fnArgs[1]))

CallGetSignalQualityFromPercent ==
    /\ fnName = "getSignalQualityFromPercent"
    /\ Returns("getSignalQualityFromPercent", getSignalQualityFromPercent(fnArgs[1]))

CallGetSpeedQuality ==
    /\ fnName = "getSpeedQuality"
    /\ Returns("getSpeedQuality", getSpeedQuality(fnArgs[1]))

ClassifyNext ==
    \/ CallGetSecurityProtocol
    \/ CallFrequencyToChannel
    \/ CallFrequencyToBand
    \/ CallGetSignalQualityFromPercent
    \/ CallGetSpeedQuality

SpecClassify == ClassifyInit /\ [][ClassifyNext]_vars

(***************************************************************************)
(* wifiInfo.ts: the networks in range.  An access point is the record of   *)
(* what its getters return: ssid is null or the GLib.Bytes (their data a   *)
(* sequence of byte values), bssid is null or a text, lastSeen counts      *)
(* whole seconds, maxBitrate Kbit/s (a multiple of 100), bandwidth is null *)
(* where the binding has no get_bandwidth.  lastScanSec is get_last_scan() / 1000, a whole number   *)
(* of milliseconds: it is counted in thousandths (Milli), and so is what   *)
(* it is compared with.                                                    *)
(***************************************************************************)
Milli(n) == n * 1000

STALE_AP_TOLERANCE_SECONDS == 10
DEFAULT_BANDWIDTH_MHZ == 20

isStaleAccessPoint_NeverSeenOnly(ap, lastScanSec) ==
    IF lastScanSec <= 0 THEN FALSE
    ELSE ap.lastSeen = -1

isStaleAccessPoint(ap, lastScanSec) ==
    IF lastScanSec <= 0 THEN FALSE
    ELSE LetIn(ap.lastSeen, LAMBDA lastSeen :
        IF lastSeen = -1 THEN TRUE
        ELSE Milli(lastSeen) < lastScanSec - Milli(STALE_AP_TOLERANCE_SECONDS))

getApBandwidth(ap) ==
    LetIn(ap.bandwidth, LAMBDA bandwidth :
        IF bandwidth # Null /\ Val(bandwidth) # 0 /\ Val(bandwidth) > 0
        THEN Val(bandwidth)
        ELSE Num(DEFAULT_BANDWIDTH_MHZ))

\* new TextDecoder().decode(data): a byte of a small letter is that letter, any
\* other byte here is one that UTF-8 does not allow and decodes to U+FFFD
LetterOfByte ==
    <<"a","b","c","d","e","f","g","h","i","j","k","l","m",
      "n","o","p","q","r","s","t","u","v","w","x","y","z">>

TextDecode(data) ==
    [i \in 1..Len(data) |->
        IF data[i] \in 97..122 THEN LetterOfByte[data[i] - 96] ELSE "U+FFFD"]

decodeSsid(ssidBytes) ==
    IF ssidBytes = Null THEN Null
    ELSE LetIn(Val(ssidBytes).data, LAMBDA data :
        IF data # Null THEN Some(TextDecode(Val(data))) ELSE Null)

\* !s for a string or null: null and '' are falsy
Falsy(s) == s = Null \/ Val(s) = <<>>

RECURSIVE InsertBySignal_Ascending(_, _)
InsertBySignal_Ascending(sorted, x) ==
    IF sorted = <<>> THEN <<x>>
    ELSE IF x.signalPercent - Head(sorted).signalPercent < 0
    THEN <<x>> \o sorted
    ELSE <<Head(sorted)>> \o InsertBySignal_Ascending(Tail(sorted), x)

\* where a stable sort with the comparator b.signalPercent - a.signalPercent
\* puts x among the elements that came before it: after every element the
\* comparator does not put behind x
RECURSIVE InsertBySignal(_, _)
InsertBySignal(sorted, x) ==
    IF sorted = <<>> THEN <<x>>
    ELSE IF x.signalPercent - Head(sorted).signalPercent > 0
    THEN <<x>> \o sorted
    ELSE <<Head(sorted)>> \o InsertBySignal(Tail(sorted), x)

RECURSIVE SortedPrefix(_, _)
SortedPrefix(arr, n) ==
    IF n = 0 THEN <<>> ELSE InsertBySignal(SortedPrefix(arr, n - 1), arr[n])

sortBySignalStrength(nets) == SortedPrefix(nets, Len(nets))

\* [...networks].sort(...) sorts a copy: the array passed in keeps its order
ArgumentAfterSort(nets) == nets

\* a Map whose iteration order matters is the sequence of its <<key, value>>
\* entries in insertion order
MapIndexOf(groups, key) == FirstIndex(LAMBDA i : groups[i][1] = key, Len(groups))

RECURSIVE GroupPrefix(_, _)
GroupPrefix(nets, n) ==
    IF n = 0 THEN <<>>
    ELSE LetIn(GroupPrefix(nets, n - 1), LAMBDA groups :
         LetIn(MapIndexOf(groups, nets[n].ssid), LAMBDA at :
            IF at # 0
            THEN [groups EXCEPT ![at] = <<groups[at][1], Append(groups[at][2], nets[n])>>]
            ELSE Append(groups, <<nets[n].ssid, <<nets[n]>> >>)))

groupBySSID(nets) == GroupPrefix(nets, Len(nets))

\* one turn of the for loop of getAvailableNetworks: why the access point was
\* skipped, or the record pushed
\* mutant: the cache is asked for the BSSID as the access point spells it
LoopTurn_RawBssidLookup(ap, lastScanSec, exclude, cache) ==
    IF isStaleAccessPoint(ap, lastScanSec) THEN [how |-> "stale"]
    ELSE LetIn(decodeSsid(ap.ssid), LAMBDA ssid :
        IF Falsy(ssid) THEN [how |-> "no ssid"]
        ELSE IF ~Falsy(exclude) /\ ssid = exclude THEN [how |-> "excluded"]
        ELSE LetIn(toLowerCase(IF ap.bssid # Null THEN Val(ap.bssid) ELSE <<>>), LAMBDA bssid :
            IF bssid = <<>> THEN [how |-> "no bssid"]
            ELSE LetIn(ap.frequency, LAMBDA frequency :
                [how |-> "pushed",
                 network |->
                    [ssid |-> Val(ssid),
                     bssid |-> bssid,
                     frequency |-> frequency,
                     channel |-> frequencyToChannel(frequency),
                     band |-> frequencyToBand(frequency),
                     bandwidth |-> getApBandwidth(ap),
                     maxBitrate |-> ap.maxBitrate \div 1000,
                     signalPercent |-> ap.strength,
                     security |-> getSecurityProtocol(ap),
                     generation |->
                        IF Val(ap.bssid) \in DOMAIN cache
                        THEN cache[Val(ap.bssid)] ELSE WIFI_UNKNOWN]])))

LoopTurn(ap, lastScanSec, exclude, cache) ==
    IF isStaleAccessPoint(ap, lastScanSec) THEN [how |-> "stale"]
    ELSE LetIn(decodeSsid(ap.ssid), LAMBDA ssid :
        IF Falsy(ssid) THEN [how |-> "no ssid"]
        ELSE IF ~Falsy(exclude) /\ ssid = exclude THEN [how |-> "excluded"]
        ELSE LetIn(toLowerCase(IF ap.bssid # Null THEN Val(ap.bssid) ELSE <<>>), LAMBDA bssid :
            IF bssid = <<>> THEN [how |-> "no bssid"]
            ELSE LetIn(ap.frequency, LAMBDA frequency :
                [how |-> "pushed",
                 network |->
                    [ssid |-> Val(ssid),
                     bssid |-> bssid,
                     frequency |-> frequency,
                     channel |-> frequencyToChannel(frequency),
                     band |-> frequencyToBand(frequency),
                     bandwidth |-> getApBandwidth(ap),
                     maxBitrate |-> ap.maxBitrate \div 1000,
                     signalPercent |-> ap.strength,
                     security |-> getSecurityProtocol(ap),
                     generation |->
                        IF bssid \in DOMAIN cache THEN cache[bssid] ELSE WIFI_UNKNOWN]])))

\* mutant: the cache is read afresh for each access point and is found empty
\* from the second one on
LoopTurns_CacheLostMidway(accessPoints, lastScanSec, exclude, cache) ==
    [i \in 1..Len(accessPoints) |->
        LoopTurn(accessPoints[i], lastScanSec, exclude, IF i = 1 THEN cache ELSE EmptyMap)]

LoopTurns(accessPoints, lastScanSec, exclude, cache) ==
    [i \in 1..Len(accessPoints) |-> LoopTurn(accessPoints[i], lastScanSec, exclude, cache)]

RECURSIVE Pushed(_, _)
Pushed(turns, n) ==
    IF n = 0 THEN <<>>
    ELSE IF turns[n].how = "pushed" THEN Append(Pushed(turns, n - 1), turns[n].network)
    ELSE Pushed(turns, n - 1)

(***************************************************************************)
(* SpecNetworks: one call of getAvailableNetworks.  The device has up to   *)
(* MaxAccessPoints access points drawn from AccessPoints: three of SSID    *)
(* "a" and two of SSID "b" with last-seen 95, 90, 91, 89 and -1 and        *)
(* strengths 80, 80, 95, 80 and 40, one with no SSID, one with an empty    *)
(* SSID and one with no BSSID.  The last scan is at -1 (none), 0, 100000   *)
(* or 100500 ms; excludeSsid is absent or "a"; the generation cache is     *)
(* empty or holds two of the BSSIDs.                                       *)
(***************************************************************************)
MaxAccessPoints == 3

AccessPoint(ssid, bssid, strength, lastSeen, frequency, wpaFlags, rsnFlags, kbps, bandwidth) ==
    [ssid |-> ssid, bssid |-> bssid, strength |-> Num(strength), lastSeen |-> lastSeen,
     frequency |-> Num(frequency), wpaFlags |-> wpaFlags, rsnFlags |-> rsnFlags,
     maxBitrate |-> Num(kbps), bandwidth |-> bandwidth]

BytesOf(data) == Some([data |-> Some(data)])

AccessPoints == {
    AccessPoint(BytesOf(<<97>>), Some(<<"A","1">>), 80, 95, 5180, 0, 392, 866700, Some(Num(80))),
    AccessPoint(BytesOf(<<97>>), Some(<<"a","2">>), 80, 90, 2437, 264, 0, 54000, Null),
    AccessPoint(BytesOf(<<97>>), Some(<<"a","3">>), 95, 91, 5955, 0, 1032, 1201000, Some(Num(0))),
    AccessPoint(BytesOf(<<98>>), Some(<<"B","1">>), 80, 89, 2484, 0, 520, 144400, Some(Num(20))),
    AccessPoint(BytesOf(<<98>>), Some(<<"b","2">>), 40, 0 - 1, 5900, 0, 0, 11000, Null),
    AccessPoint(Null, Some(<<"c","1">>), 99, 95, 5180, 0, 392, 866700, Null),
    AccessPoint(BytesOf(<<>>), Some(<<"c","2">>), 98, 95, 5180, 0, 392, 866700, Null),
    AccessPoint(BytesOf(<<99>>), Null, 97, 95, 5180, 0, 392, 866700, Null)
}

LastScans == {0 - 1, 0, 100000, 100500}

ExcludedSsids == {Null, Some(<<"a">>)}

Caches == {EmptyMap, (<<"a","1">> :> WIFI_6) @@ (<<"b","1">> :> WIFI_4)}

NetworksInit ==
    /\ \/ /\ client = TRUE
          /\ \E aps \in SeqsUpTo(AccessPoints, MaxAccessPoints), ls \in LastScans :
                wifiDevice = Some([accessPoints |-> aps, lastScan |-> ls])
       \/ /\ client \in BOOLEAN
          /\ wifiDevice = Null
    /\ excludeSsid \in ExcludedSsids
    /\ generationMap \in Caches
    /\ watchedDevice = FALSE
    /\ inflight = 0
    /\ svcLog = <<>>
    /\ nPc = "call"
    /\ loopLog = <<>>
    /\ networks = <<>>
    /\ nRet = Null
    /\ DetectIdle
    /\ LinkIdle
    /\ ScanIdle
    /\ ClassifyIdle
    /\ ExtensionIdle

\* getAvailableNetworks(excludeSsid): it has no await, so it runs in one step
GetAvailableNetworks ==
    /\ nPc = "call"
    /\ nPc' = "done"
    /\ IF ~client \/ wifiDevice = Null
       THEN /\ nRet' = Some(<<>>)
            /\ UNCHANGED <<loopLog, networks>>
       ELSE \E turns \in {LoopTurns(Val(wifiDevice).accessPoints, Val(wifiDevice).lastScan,
                                    excludeSsid, generationMap)} :
            \E built \in {Pushed(turns, Len(turns))} :
                /\ loopLog' = [i \in 1..Len(turns) |-> turns[i].how]
                /\ nRet' = Some(groupBySSID(sortBySignalStrength(built)))
                /\ networks' = ArgumentAfterSort(built)
    /\ UNCHANGED <<wifiDevice, excludeSsid, detectVars, linkVars, scanVars, svcVars, fnVars, extVars>>

NetworksNext == GetAvailableNetworks

SpecNetworks == NetworksInit /\ [][NetworksNext]_vars

(***************************************************************************)
(* getAvailableNetworks interleaved with scan dumps.  The service has been *)
(* initialised and watches its device, no dump has completed yet; dumps    *)
(* start and complete at any time before and after the one call.           *)
(***************************************************************************)
SnapshotPointA ==
    AccessPoint(BytesOf(<<97>>), Some(<<"A","A",":","B","B",":","C","C",":","D","D",":","E","E",":","0","1">>),
                80, 95, 5180, 0, 392, 866700, Some(Num(80)))

SnapshotPointB ==
    AccessPoint(BytesOf(<<97>>), Some(<<"0","a",":","1","B",":","2","c",":","3","D",":","4","e",":","5","F">>),
                70, 95, 2437, 0, 392, 144400, Null)

SnapshotPointC ==
    AccessPoint(BytesOf(<<98>>), Some(<<"0","0",":","0","0",":","0","0",":","0","0",":","0","0",":","0","2">>),
                60, 95, 2412, 0, 0, 54000, Null)

\* the cache will know the first and the last of the three, under lower-cased keys
SnapshotDevices == {<<SnapshotPointB, SnapshotPointC, SnapshotPointA>>}

SnapshotInit ==
    /\ client = TRUE
    /\ watchedDevice = TRUE
    /\ generationMap = EmptyMap
    /\ inflight = 0
    /\ svcLog = <<>>
    /\ \E aps \in SnapshotDevices :
            wifiDevice = Some([accessPoints |-> aps, lastScan |-> 0])
    /\ excludeSsid = Null
    /\ nPc = "call"
    /\ loopLog = <<>>
    /\ networks = <<>>
    /\ nRet = Null
    /\ DetectIdle
    /\ LinkIdle
    /\ ScanIdle
    /\ ClassifyIdle
    /\ ExtensionIdle

SnapshotNext ==
    \/ OnScanCompleted
    \/ DumpCompletes
    \/ GetAvailableNetworks

SpecSnapshot == SnapshotInit /\ [][SnapshotNext]_vars

(***************************************************************************)
(* extension.ts: enable(), disable(), the completions of init(), the       *)
(* refresh timer, the device signals, the menu and the awaits of refresh() *)
(***************************************************************************)
RefreshAwaits == {"getConnectionInfo", "updateAccessPoints", "updateNearbyNetworks"}

\* the calls of refresh() suspended at one of its awaits
RefreshesInFlight ==
    refreshing["getConnectionInfo"] + refreshing["updateAccessPoints"]
        + refreshing["updateNearbyNetworks"]

\* mutant: the completion of init() looks at the service only
InitSuperseded_ServiceOnly(epoch, currentEpoch, service) == service = Null

\* enable(), lines 136-137: the two early returns of the then-callback
InitSuperseded(epoch, currentEpoch, service) == epoch # currentEpoch \/ service = Null

\* refresh(), line 460: !this.wifiService || !this.label || this.refreshPending
RefreshReturnsEarly(service, lbl, pending) == service = Null \/ lbl = Null \/ pending

\* scheduleRefresh(), with the fields as they are when it is called: refresh()
\* returns at once, or sets refreshPending and suspends at its first await
ScheduleRefresh(service, lbl) ==
    IF RefreshReturnsEarly(service, lbl, refreshPending)
    THEN UNCHANGED <<refreshPending, refreshing>>
    ELSE /\ RefreshesInFlight < MaxRefreshing
         /\ refreshPending' = TRUE
         /\ refreshing' = [refreshing EXCEPT !["getConnectionInfo"] = @ + 1]

\* the finally block of refresh(), reached from the await at
Finally(at) ==
    /\ refreshPending' = FALSE
    /\ refreshing' = [refreshing EXCEPT ![at] = @ - 1]

\* enable(); the shell calls enable() and disable() in turn
Enable ==
    /\ lastCall # "enable"
    /\ enableEpoch < MaxEnables
    /\ enableEpoch' = enableEpoch + 1
    /\ wifiService' = Some(enableEpoch + 1)
    /\ inits' = [inits EXCEPT ![enableEpoch + 1] = "pending"]
    /\ lastCall' = "enable"
    /\ UNCHANGED <<indicator, refreshTimeout, backgroundScanTimeout, isMenuOpen,
                   refreshPending, watching, refreshing, indicatorsCreated,
                   detectVars, linkVars, scanVars, svcVars, fnVars, netVars>>

\* the then-callback of init(), lines 135-147, for the enable() of some epoch
InitResolves(epoch) ==
    /\ inits[epoch] = "pending"
    /\ IF InitSuperseded(epoch, enableEpoch, wifiService)
       THEN /\ inits' = [inits EXCEPT ![epoch] = "superseded"]
            /\ UNCHANGED <<indicator, refreshTimeout, backgroundScanTimeout,
                           refreshPending, watching, refreshing, indicatorsCreated>>
       ELSE /\ inits' = [inits EXCEPT ![epoch] = "resolved"]
            /\ \E deviceFound \in BOOLEAN :
                  watching' = IF deviceFound THEN watching \cup {Val(wifiService)}
                              ELSE watching \ {Val(wifiService)}
            /\ indicator' = Some(epoch)
            /\ indicatorsCreated' = [indicatorsCreated EXCEPT ![epoch] = @ + 1]
            /\ ScheduleRefresh(wifiService, Some(epoch))
            /\ refreshTimeout' = Some(enableEpoch)
            /\ backgroundScanTimeout' = Some(enableEpoch)
    /\ UNCHANGED <<enableEpoch, wifiService, isMenuOpen, lastCall,
                   detectVars, linkVars, scanVars, svcVars, fnVars, netVars>>

InitResolvesSome == \E epoch \in 1..MaxEnables : InitResolves(epoch)

\* the catch-callback of init(), lines 148-150
InitRejects ==
    /\ \E epoch \in 1..MaxEnables :
          /\ inits[epoch] = "pending"
          /\ inits' = [inits EXCEPT ![epoch] = "rejected"]
    /\ UNCHANGED <<enableEpoch, wifiService, indicator, refreshTimeout,
                   backgroundScanTimeout, isMenuOpen, refreshPending, watching,
                   refreshing, lastCall, indicatorsCreated,
                   detectVars, linkVars, scanVars, svcVars, fnVars, netVars>>

\* disable(), lines 153-185
Disable ==
    /\ lastCall = "enable"
    /\ backgroundScanTimeout' = Null
    /\ refreshTimeout' = Null
    /\ watching' = IF wifiService # Null THEN watching \ {Val(wifiService)} ELSE watching
    /\ indicator' = Null
    /\ wifiService' = Null
    /\ refreshPending' = FALSE
    /\ isMenuOpen' = FALSE
    /\ lastCall' = "disable"
    /\ UNCHANGED <<enableEpoch, inits, refreshing, indicatorsCreated,
                   detectVars, linkVars, scanVars, svcVars, fnVars, netVars>>

\* the callback of the refresh timer, lines 937-940
RefreshTimerTick ==
    /\ refreshTimeout # Null
    /\ ScheduleRefresh(wifiService, indicator)
    /\ UNCHANGED <<enableEpoch, wifiService, indicator, refreshTimeout,
                   backgroundScanTimeout, isMenuOpen, watching, inits, lastCall,
                   indicatorsCreated,
                   detectVars, linkVars, scanVars, svcVars, fnVars, netVars>>

\* state-changed or notify::active-access-point of a watched device: the
\* callback handed to watchDeviceSignals, lines 139-142
DeviceSignalCallback ==
    /\ watching # {}
    /\ ScheduleRefresh(wifiService, indicator)
    /\ UNCHANGED <<enableEpoch, wifiService, indicator, refreshTimeout,
                   backgroundScanTimeout, isMenuOpen, watching, inits, lastCall,
                   indicatorsCreated,
                   detectVars, linkVars, scanVars, svcVars, fnVars, netVars>>

\* open-state-changed of the indicator's menu, lines 216-225
MenuOpenStateChanged ==
    /\ indicator # Null
    /\ \E isOpen \in {~isMenuOpen} :
          /\ isMenuOpen' = isOpen
          /\ IF isOpen
             THEN /\ backgroundScanTimeout' = Null
                  /\ ScheduleRefresh(wifiService, indicator)
             ELSE /\ backgroundScanTimeout' = Some(enableEpoch)
                  /\ UNCHANGED <<refreshPending, refreshing>>
    /\ UNCHANGED <<enableEpoch, wifiService, indicator, refreshTimeout, watching,
                   inits, lastCall, indicatorsCreated,
                   detectVars, linkVars, scanVars, svcVars, fnVars, netVars>>

\* refresh() from its first await on, lines 464-475: getConnectionInfo()
\* rejects, or resolves and refresh() returns, or goes on to updateAccessPoints()
GetConnectionInfoSettles ==
    /\ refreshing["getConnectionInfo"] > 0
    /\ \E rejects \in BOOLEAN :
          IF rejects \/ wifiService = Null \/ ~isMenuOpen
          THEN Finally("getConnectionInfo")
          ELSE /\ refreshing' = [refreshing EXCEPT !["getConnectionInfo"] = @ - 1,
                                                   !["updateAccessPoints"] = @ + 1]
               /\ UNCHANGED refreshPending
    /\ UNCHANGED <<enableEpoch, wifiService, indicator, refreshTimeout,
                   backgroundScanTimeout, isMenuOpen, watching, inits, lastCall,
                   indicatorsCreated,
                   detectVars, linkVars, scanVars, svcVars, fnVars, netVars>>

\* refresh() from its second await on, lines 473-474
UpdateAccessPointsSettles ==
    /\ refreshing["updateAccessPoints"] > 0
    /\ \E rejects \in BOOLEAN :
          IF rejects
          THEN Finally("updateAccessPoints")
          ELSE /\ refreshing' = [refreshing EXCEPT !["updateAccessPoints"] = @ - 1,
                                                   !["updateNearbyNetworks"] = @ + 1]
               /\ UNCHANGED refreshPending
    /\ UNCHANGED <<enableEpoch, wifiService, indicator, refreshTimeout,
                   backgroundScanTimeout, isMenuOpen, watching, inits, lastCall,
                   indicatorsCreated,
                   detectVars, linkVars, scanVars, svcVars, fnVars, netVars>>

\* refresh() from its third await on, lines 474-478
UpdateNearbyNetworksSettles ==
    /\ refreshing["updateNearbyNetworks"] > 0
    /\ Finally("updateNearbyNetworks")
    /\ UNCHANGED <<enableEpoch, wifiService, indicator, refreshTimeout,
                   backgroundScanTimeout, isMenuOpen, watching, inits, lastCall,
                   indicatorsCreated,
                   detectVars, linkVars, scanVars, svcVars, fnVars, netVars>>

ExtensionInit ==
    /\ ExtensionIdle
    /\ DetectIdle
    /\ LinkIdle
    /\ ScanIdle
    /\ ServiceIdle
    /\ ClassifyIdle
    /\ NetworksIdle

ExtensionNext ==
    \/ Enable
    \/ InitResolvesSome
    \/ InitRejects
    \/ Disable
    \/ RefreshTimerTick
    \/ DeviceSignalCallback
    \/ MenuOpenStateChanged
    \/ GetConnectionInfoSettles
    \/ UpdateAccessPointsSettles
    \/ UpdateNearbyNetworksSettles

SpecExtension == ExtensionInit /\ [][ExtensionNext]_vars

(***************************************************************************)
(* Claims on SpecDetect                                                    *)
(***************************************************************************)
HasToken(kind) == \E i \in 1..Len(dTokens) : dTokens[i].kind = kind

HasBareMcsNumber == \E i \in 1..Len(dTokens) : dTokens[i].kind = "MCS" /\ dTokens[i].n # Null

HasDashMcs == \E k \in {"EHT-MCS", "HE-MCS", "VHT-MCS", "X-MCS"} : HasToken(k)

\* the generation the priority chain of C2 assigns to the tokens written into the line
ExpectedGeneration ==
    IF HasToken("EHT-MCS") THEN WIFI_7
    ELSE IF HasToken("HE-MCS") THEN WIFI_6
    ELSE IF HasToken("VHT-MCS") THEN WIFI_5
    ELSE IF HasBareMcsNumber /\ ~HasDashMcs THEN WIFI_4
    ELSE WIFI_UNKNOWN

\* C2: detectWifiGeneration tries the matchers newest first and the first match
\* wins: EHT-MCS gives Gen7, else HE-MCS Gen6, else VHT-MCS Gen5, else a bare
\* "MCS n" with no "-MCS" in the line Gen4, else Unknown with mcs, nss and guard
\* interval absent; a newer marker dominates every older marker in the same line.
C2_NewestFirst ==
    dPc = "done" =>
        /\ Val(dResult).generation = ExpectedGeneration
        /\ (Val(dResult).generation = WIFI_UNKNOWN =>
                /\ Val(dResult).mcs = Null
                /\ Val(dResult).nss = Null
                /\ Val(dResult).guardInterval = Null)

\* a line carrying an EHT, an HE and a bare MCS marker is detected as Gen7
C2_Witness ==
    /\ dPc = "done"
    /\ HasToken("EHT-MCS") /\ HasToken("HE-MCS") /\ HasBareMcsNumber
    /\ Val(dResult).generation = WIFI_7

\* the number of the first token of the kind written into the line, null when
\* the line has none
FirstTokenNumber(kind) ==
    IF \A i \in 1..Len(dTokens) : dTokens[i].kind # kind \/ dTokens[i].n = Null THEN Null
    ELSE dTokens[CHOOSE i \in 1..Len(dTokens) :
                    /\ dTokens[i].kind = kind /\ dTokens[i].n # Null
                    /\ \A j \in 1..(i - 1) : dTokens[j].kind # kind \/ dTokens[j].n = Null].n

\* the guard interval C18 states for a GI index, in tenths of a microsecond
GuardIntervalAsStated(index) ==
    IF index = Some(Num(1)) THEN 16
    ELSE IF index = Some(Num(2)) THEN 32
    ELSE 8

\* C18: for a line detected as Gen6 or Gen7 the guard interval is decoded from
\* the generation's own index token ('HE-GI n', 'EHT-GI n'): 0 gives 0.8 us,
\* 1 gives 1.6 us, 2 gives 3.2 us, a missing token or any other index 0.8 us;
\* it is never absent and never 0.4 us.
C18_HeGuardInterval ==
    (dPc = "done" /\ Val(dResult).generation \in {WIFI_6, WIFI_7}) =>
        \A own \in {IF Val(dResult).generation = WIFI_6 THEN "HE-GI" ELSE "EHT-GI"} :
            /\ Val(dResult).guardInterval = Some(GuardIntervalAsStated(FirstTokenNumber(own)))
            /\ Val(dResult).guardInterval # Null
            /\ Val(dResult).guardInterval # Some(4)

\* an HE line with 'short GI' and 'HE-GI 2': the guard interval is 3.2 us
C18_Witness ==
    /\ dPc = "done"
    /\ Val(dResult).generation = WIFI_6
    /\ HasToken("short GI")
    /\ FirstTokenNumber("HE-GI") = Some(Num(2))
    /\ Val(dResult).guardInterval = Some(32)

\* C19: for a line detected as Gen4 (a bare 'MCS n', no '-MCS') mcs is n and the
\* spatial-stream count is floor(n / 8) + 1: 1 for 0..7, 2 for 8..15, 3 for 16..23.
C19_HtStreams ==
    (dPc = "done" /\ Val(dResult).generation = WIFI_4) =>
        \A n \in {FirstTokenNumber("MCS")} :
            /\ n # Null
            /\ Val(dResult).mcs = n
            /\ \E streams \in 1..3 :
                /\ Val(n) >= Num(8 * (streams - 1))
                /\ Val(n) <= Num(8 * streams - 1)
                /\ Val(dResult).nss = Some(Num(streams))

\* 'MCS 16' ahead of 'MCS 7': mcs is 16 and the line counts three streams
C19_Witness ==
    /\ dPc = "done"
    /\ Val(dResult).generation = WIFI_4
    /\ Len(dTokens) = 3
    /\ dTokens[1].kind = "MCS" /\ dTokens[1].n = Some(Num(16))
    /\ dTokens[3].kind = "MCS" /\ dTokens[3].n = Some(Num(7))
    /\ Val(dResult).mcs = Some(Num(16))
    /\ Val(dResult).nss = Some(Num(3))

(***************************************************************************)
(* Claims on SpecLink                                                      *)
(***************************************************************************)
Returned == lPc = "returned"

SrcIdx(cat) == {i \in 1..Len(lSrc) : lSrc[i].cat = cat}

\* what detectWifiGeneration finds on the only line of category cat
DetectedOn(cat) == detectWifiGeneration(trim(lSrc[CHOOSE i \in SrcIdx(cat) : TRUE].text))

OneTxOneRx == Cardinality(SrcIdx("tx")) = 1 /\ Cardinality(SrcIdx("rx")) = 1

ModulationOf(r) ==
    [generation |-> r.generation, mcs |-> r.mcs, nss |-> r.nss,
     guardInterval |-> r.guardInterval]

TxRxPrecedence ==
    \A tx \in {DetectedOn("tx")}, rx \in {DetectedOn("rx")}, r \in {ModulationOf(Val(lRet))} :
        /\ tx.generation # WIFI_UNKNOWN => r = tx
        /\ (tx.generation = WIFI_UNKNOWN /\ rx.generation # WIFI_UNKNOWN) => r = rx
        /\ tx.generation = WIFI_UNKNOWN =>
               /\ r.mcs = rx.mcs
               /\ r.nss = rx.nss
               /\ r.guardInterval = rx.guardInterval

\* C1 as stated: for every text with one tx bitrate line and one rx bitrate
\* line, in either order, generation, mcs, nss and guard interval are the ones
\* detected on the tx line when it carries a marker, and the ones detected on
\* the rx line when the tx line yields Unknown.
C1_AsStated == (Returned /\ OneTxOneRx) => TxRxPrecedence

\* C1: for every text with one tx bitrate line and one rx bitrate line, in either
\* order, that does not contain "Not connected": generation, mcs, nss and guard
\* interval are the ones detected on the tx line when it carries a marker, and
\* the ones detected on the rx line when the tx line yields Unknown.
C1_TxBeforeRx ==
    (Returned /\ OneTxOneRx /\ ~includes(iwOutput, S_NotConnected)) => TxRxPrecedence

\* the rx line comes first and carries a VHT marker, the tx line an HE marker:
\* the result is the tx line's Gen6
C1_Witness ==
    /\ Returned
    /\ OneTxOneRx
    /\ ~includes(iwOutput, S_NotConnected)
    /\ \E i \in SrcIdx("rx"), j \in SrcIdx("tx") :
          i < j /\ lSrc[i].marker = WIFI_5 /\ lSrc[j].marker = WIFI_6
    /\ Val(lRet).generation = WIFI_6
    /\ Val(lRet).mcs = Some(Num(11))

NoMarker == \A i \in 1..Len(lSrc) : lSrc[i].marker = WIFI_UNKNOWN

\* the decision table of the legacy fallback, over the fields of a result
LegacyTable(r) ==
    LET tx == IF r.txBitrate = Null THEN 0 ELSE Val(r.txBitrate)
        rx == IF r.rxBitrate = Null THEN 0 ELSE Val(r.rxBitrate)
        top == IF tx >= rx THEN tx ELSE rx
    IN  IF r.frequency = Null THEN WIFI_UNKNOWN
        ELSE IF Val(r.frequency) >= 50000 THEN WIFI_2
        ELSE IF top > 0 THEN (IF top <= 110 THEN WIFI_1 ELSE WIFI_3)
        ELSE WIFI_UNKNOWN

\* C3: when no bitrate line yields a generation marker the legacy fallback
\* decides: no frequency parsed gives Unknown whatever the bitrates; a frequency
\* >= 5000 gives Gen2; a frequency < 5000 with max(tx, rx) > 0 gives Gen1 when
\* the maximum is <= 11 and Gen3 when it is > 11; a frequency < 5000 with no
\* positive bitrate gives Unknown.
C3_LegacyFallback ==
    (Returned /\ NoMarker) => Val(lRet).generation = LegacyTable(Val(lRet))

\* 2437 MHz with a top bitrate of exactly 11 Mbit/s is Gen1
C3_Witness ==
    /\ Returned
    /\ NoMarker
    /\ Val(lRet).frequency = Some(Num(2437))
    /\ Val(lRet).txBitrate = Some(Num(11))
    /\ Val(lRet).rxBitrate = Null
    /\ Val(lRet).generation = WIFI_1

StandardLabel(g) ==
    CASE g = 1 -> "802.11b" [] g = 2 -> "802.11a" [] g = 3 -> "802.11g" [] g = 4 -> "802.11n"
      [] g = 5 -> "802.11ac" [] g = 6 -> "802.11ax" [] g = 7 -> "802.11be"

StandardMatchesGeneration(r) ==
    /\ r.standard # Null <=> r.generation \in 1..7
    /\ r.standard # Null => Val(r.standard) = StandardLabel(r.generation)

\* C4: every LinkInfo returned by parseIwLinkOutput or createEmptyIwLinkInfo has
\* a standard if and only if its generation is one of Gen1..Gen7, and the
\* standard is then the IEEE label of that generation.
C4_StandardIffKnown ==
    /\ StandardMatchesGeneration(createEmptyIwLinkInfo)
    /\ lRet # Null => StandardMatchesGeneration(Val(lRet))

\* a legacy 5 GHz link is returned as Gen2 with the label 802.11a
C4_Witness ==
    /\ Returned
    /\ Val(lRet).generation = WIFI_2
    /\ Val(lRet).standard = Some("802.11a")

AllAbsent ==
    [generation |-> 0, standard |-> <<>>, mcs |-> <<>>, nss |-> <<>>,
     guardInterval |-> <<>>, channelWidth |-> <<>>, txBitrate |-> <<>>,
     rxBitrate |-> <<>>, signal |-> <<>>, frequency |-> <<>>, ssid |-> <<>>,
     bssid |-> <<>>]

\* C5: parseIwLinkOutput of the empty string, and of any text that contains
\* "Not connected" anywhere, whatever its other lines, returns the all-absent
\* record (generation Unknown, every other field null), which is
\* createEmptyIwLinkInfo().
C5_NotConnectedIsEmpty ==
    (Returned /\ (lSrc = <<>> \/ \E i \in 1..Len(lSrc) : lSrc[i].nc)) =>
        /\ lRet = Some(AllAbsent)
        /\ lRet = Some(createEmptyIwLinkInfo)

\* a frequency line and a tx line with an HE marker come before the line that
\* holds "Not connected": still the all-absent record
C5_Witness ==
    /\ Returned
    /\ Len(lSrc) = 3
    /\ lSrc[1].cat = "freq" /\ lSrc[1].form = "ok"
    /\ lSrc[2].marker = WIFI_6
    /\ lSrc[3].nc
    /\ lRet = Some(AllAbsent)

LinkInfoFields ==
    {"generation", "standard", "mcs", "nss", "guardInterval", "channelWidth",
     "txBitrate", "rxBitrate", "signal", "frequency", "ssid", "bssid"}

IsLinkInfo(r) ==
    /\ DOMAIN r = LinkInfoFields
    /\ r.generation \in WifiGeneration
    /\ \A f \in LinkInfoFields \ {"generation"} : r[f] = Null \/ Len(r[f]) = 1

\* the field a line of category cat is about
FieldOf(cat) ==
    CASE cat = "ssid" -> "ssid" [] cat = "bssid" -> "bssid" [] cat = "freq" -> "frequency"
      [] cat = "signal" -> "signal" [] cat = "tx" -> "txBitrate" [] cat = "rx" -> "rxBitrate"

MarkersWritten ==
    {lSrc[i].marker : i \in {j \in 1..Len(lSrc) :
                                lSrc[j].cat \in {"tx", "rx"} /\ lSrc[j].marker # WIFI_UNKNOWN}}

\* a result of Gen1, Gen2 or Gen3 comes from a text with no marker
LegacyOnlyWithoutMarker ==
    Val(lRet).generation \in {WIFI_1, WIFI_2, WIFI_3} => MarkersWritten = {}

\* C20 as stated: whenever some tx or rx bitrate line yields a generation in
\* Gen4..Gen7 the result has that generation whatever the frequency and the
\* bitrates are, and the result is Gen1, Gen2 or Gen3 only when no bitrate line
\* carried a marker.
C20_AsStated ==
    Returned =>
        /\ MarkersWritten # {} => Val(lRet).generation \in MarkersWritten
        /\ LegacyOnlyWithoutMarker

\* C20: for a text that does not contain "Not connected", whenever some tx or rx
\* bitrate line yields a generation in Gen4..Gen7 the result has that generation
\* whatever the frequency and the bitrates are; and for every text the result is
\* Gen1, Gen2 or Gen3 only when no bitrate line carried a marker.
C20_MarkerBeatsLegacy ==
    Returned =>
        /\ (MarkersWritten # {} /\ ~includes(iwOutput, S_NotConnected))
                => Val(lRet).generation \in MarkersWritten
        /\ LegacyOnlyWithoutMarker

\* 2437 MHz and 6.5 Mbit/s, where the fallback would say Gen1, on a line with
\* 'MCS 0': the result is Gen4
C20_Witness ==
    /\ Returned
    /\ ~includes(iwOutput, S_NotConnected)
    /\ MarkersWritten = {WIFI_4}
    /\ Val(lRet).frequency = Some(Num(2437))
    /\ Val(lRet).txBitrate = Some(65)
    /\ Val(lRet).rxBitrate = Null
    /\ Val(lRet).generation = WIFI_4

\* the bitrate written into a tx or rx line of the vocabulary, in tenths of a
\* Mbit/s; null for the lines with no number before 'MBit/s'
BitrateWritten(l) ==
    IF l.form = "bad" THEN Null
    ELSE IF l.cat = "tx"
    THEN (IF l.marker = WIFI_6 THEN Some(5735)
          ELSE IF l.marker = WIFI_4 THEN Some(65)
          ELSE Some(110))
    ELSE (IF l.marker = WIFI_5 THEN Some(8667) ELSE Some(540))

\* the bitrate of the last line of the category among the first n lines
LastBitrateWritten(cat, n) ==
    LetIn({i \in 1..n : lSrc[i].cat = cat}, LAMBDA hits :
        IF hits = {} THEN Null
        ELSE BitrateWritten(lSrc[CHOOSE i \in hits : \A j \in hits : j <= i]))

BitratesAsWritten(r, n) ==
    /\ r.txBitrate = LastBitrateWritten("tx", n)
    /\ r.rxBitrate = LastBitrateWritten("rx", n)

\* while the lines are read, the two bitrates are those of the last tx and the
\* last rx line read so far: a line sets the bitrate of its own direction and
\* leaves the other one alone
BitratesFollowTheirLines == lPc = "loop" => BitratesAsWritten(Val(result), lIdx - 1)

\* C21 as stated: in the result txBitrate is the number parsed from the tx
\* bitrate line and rxBitrate the number parsed from the rx bitrate line, with
\* or without a marker on the line and whichever line supplied the generation;
\* the rx line never changes txBitrate and the tx line never changes rxBitrate.
C21_AsStated ==
    /\ Returned => BitratesAsWritten(Val(lRet), Len(lSrc))
    /\ BitratesFollowTheirLines

\* C21: for a text that does not contain "Not connected", in the result
\* txBitrate is the number parsed from the (last) tx bitrate line and rxBitrate
\* the number parsed from the (last) rx bitrate line, with or without a marker on
\* the line and whichever line supplied the generation; the rx line never
\* changes txBitrate and the tx line never changes rxBitrate.
C21_BitratesIndependent ==
    /\ (Returned /\ ~includes(iwOutput, S_NotConnected))
            => BitratesAsWritten(Val(lRet), Len(lSrc))
    /\ BitratesFollowTheirLines

\* the tx line supplies Gen6, the rx line after it has no marker: both bitrates
\* are in the result
C21_Witness ==
    /\ Returned
    /\ Len(lSrc) = 2
    /\ lSrc[1].cat = "tx" /\ lSrc[1].marker = WIFI_6
    /\ lSrc[2].cat = "rx" /\ lSrc[2].marker = WIFI_UNKNOWN /\ lSrc[2].form = "ok"
    /\ Val(lRet).generation = WIFI_6
    /\ Val(lRet).txBitrate = Some(5735)
    /\ Val(lRet).rxBitrate = Some(540)

\* parseIwLinkOutput applied to a text, the loop run to its end
RECURSIVE ParseLinesFrom(_, _, _)
ParseLinesFrom(lines, i, res) ==
    IF i > Len(lines) THEN res
    ELSE ParseLinesFrom(lines, i + 1, parseLine(trim(lines[i]), res))

ResultOfText(text) ==
    IF EarlyReturn(text) THEN createEmptyIwLinkInfo
    ELSE freezeResult(detectLegacyGeneration(
            ParseLinesFrom(split(text, "\n"), 1, createMutableResult)))

RecognizedPrefixes == {"ssid", "bssid", "freq", "signal", "tx", "rx"}

EachPrefixAtMostOnce == \A cat \in RecognizedPrefixes : Cardinality(SrcIdx(cat)) <= 1

\* a rank that tells apart any two different lines of a text in which each
\* recognized prefix occurs at most once
LineRank(l) ==
    100 * (CASE l.cat = "ssid" -> 0 [] l.cat = "bssid" -> 1 [] l.cat = "freq" -> 2
             [] l.cat = "signal" -> 3 [] l.cat = "tx" -> 4 [] l.cat = "rx" -> 5
             [] OTHER -> 6)
    + (IF l.nc THEN 10 ELSE 0) + l.marker

RECURSIVE InsertByRank(_, _)
InsertByRank(l, sorted) ==
    IF sorted = <<>> THEN <<l>>
    ELSE IF LineRank(l) <= LineRank(Head(sorted)) THEN <<l>> \o sorted
    ELSE <<Head(sorted)>> \o InsertByRank(l, Tail(sorted))

\* the one arrangement by rank of the lines of a text
RECURSIVE ArrangedByRank(_)
ArrangedByRank(ls) ==
    IF ls = <<>> THEN <<>> ELSE InsertByRank(Head(ls), ArrangedByRank(Tail(ls)))

\* C24: line order does not affect the result of parseIwLinkOutput: for every
\* link-status text in which each recognized prefix (SSID:, Connected to,
\* freq:, signal:, tx bitrate:, rx bitrate:) occurs on at most one line, every
\* permutation of its lines yields the same LinkInfo, also when the rx bitrate
\* line precedes the tx bitrate line.  Every arrangement of the lines yields
\* what the one arrangement by rank yields.
C24_LineOrderIrrelevant ==
    (Returned /\ EachPrefixAtMostOnce)
        => Val(lRet) = ResultOfText(JoinLines(ArrangedByRank(lSrc)))

\* the rx line with the VHT marker comes first, the tx line with the HE marker
\* second, the frequency last: the result is that of the text with the lines
\* the other way round, Gen6
C24_Witness ==
    /\ Returned
    /\ Len(lSrc) = 3
    /\ lSrc[1].cat = "rx" /\ lSrc[1].marker = WIFI_5
    /\ lSrc[2].cat = "tx" /\ lSrc[2].marker = WIFI_6
    /\ lSrc[3].cat = "freq" /\ lSrc[3].form = "ok"
    /\ ArrangedByRank(lSrc) = <<lSrc[3], lSrc[2], lSrc[1]>>
    /\ Val(lRet).generation = WIFI_6
    /\ Val(lRet).rxBitrate = Some(8667)
    /\ Val(lRet).frequency # Null

\* the four fields that describe the modulation of a bitrate line
ModulationFields(r) == <<r.mcs, r.nss, r.guardInterval, r.channelWidth>>

\* the bitrate lines of the text whose marker gives the generation g
LinesSupplying(g) ==
    {i \in 1..Len(lSrc) : lSrc[i].cat \in {"tx", "rx"} /\ lSrc[i].marker = g}

\* C26: in every LinkInfo returned by parseIwLinkOutput, mcs, nss, guard
\* interval and channel width all come from one and the same bitrate line, the
\* line that supplied the generation: when generation is Unknown, Gen1, Gen2 or
\* Gen3 all four are absent (a channel width on a marker-less bitrate line is
\* not recorded), and when generation is Gen4..Gen7 the guard interval is
\* present.
C26_ModulationFromOneLine ==
    Returned =>
        \A r \in {Val(lRet)} :
            IF r.generation \in {WIFI_UNKNOWN, WIFI_1, WIFI_2, WIFI_3}
            THEN ModulationFields(r) = <<Null, Null, Null, Null>>
            ELSE /\ r.guardInterval # Null
                 /\ \E i \in LinesSupplying(r.generation) :
                        \A bitrateInfo \in {parseBitrateLine(trim(lSrc[i].text))} :
                            /\ bitrateInfo.generation = r.generation
                            /\ ModulationFields(bitrateInfo) = ModulationFields(r)

\* a marker-less tx line with '20MHz' and the VHT rx line with '80MHz': the
\* result is Gen5 with the rx line's MCS 9, two streams, short guard interval
\* and 80 MHz
C26_Witness ==
    /\ Returned
    /\ Len(lSrc) = 2
    /\ lSrc[1].cat = "tx" /\ lSrc[1].marker = WIFI_UNKNOWN /\ lSrc[1].form = "ok"
    /\ lSrc[2].cat = "rx" /\ lSrc[2].marker = WIFI_5
    /\ Val(lRet).generation = WIFI_5
    /\ Val(lRet).mcs = Some(Num(9))
    /\ Val(lRet).nss = Some(Num(2))
    /\ Val(lRet).guardInterval = Some(GI_SHORT)
    /\ Val(lRet).channelWidth = Some(Num(80))

(***************************************************************************)
(* Claims on SpecExec                                                      *)
(***************************************************************************)
ToolFailures ==
    {"interface_null", "spawn_failed", "communicate_failed", "exit_unsuccessful",
     "stdout_empty"}

\* C10: executeIwLink never rejects, and when the interface name is null, the
\* subprocess cannot be spawned, communicate throws, the exit status is
\* unsuccessful or stdout is empty, it returns the record parseIwLinkOutput
\* gives for the empty string: generation Unknown and every field null.
C10_NeverRejects ==
    /\ ePc # "rejected"
    /\ EarlyReturn(<<>>)
    /\ (ePc = "returned" /\ eOutcome \in ToolFailures) => eRet = Some(AllAbsent)
    /\ ePc = "returned" => (eRet # Null /\ IsLinkInfo(Val(eRet)))

\* the subprocess could not be spawned and the all-absent record came back
C10_Witness ==
    /\ ePc = "returned"
    /\ eOutcome = "spawn_failed"
    /\ eRet = Some(AllAbsent)

(***************************************************************************)
(* Claims on SpecScan                                                      *)
(***************************************************************************)
\* the newest generation among the headers written into a block
NewestHeader(hdrs) ==
    LET has(h) == \E i \in 1..Len(hdrs) : hdrs[i] = h
    IN  IF has("EHTcap") THEN 7
        ELSE IF has("HEcap") THEN 6
        ELSE IF has("VHTcap") \/ has("VHTop") THEN 5
        ELSE IF has("HTcap") \/ has("HTop") THEN 4
        ELSE 0

HeaderGeneration(h) ==
    CASE h = "EHTcap" -> 7 [] h = "HEcap" -> 6 [] h \in {"VHTcap", "VHTop"} -> 5
      [] h \in {"HTcap", "HTop"} -> 4

\* the blocks of the dump that are recorded: a key, and no later block with it
RecordedBlocks ==
    {i \in 1..Len(sSrc.blocks) :
        /\ HeadKey(sSrc.blocks[i].head) # Null
        /\ \A j \in (i + 1)..Len(sSrc.blocks) : HeadKey(sSrc.blocks[j].head) # HeadKey(sSrc.blocks[i].head)}

\* the block the dump ends with, recorded or not (every block is the last one of
\* some dump)
LastBlock == IF sSrc.blocks = <<>> THEN {} ELSE {sSrc.blocks[Len(sSrc.blocks)]}

\* C7: each access-point block is classified as the newest generation whose
\* header it contains: "EHT capabilities" Gen7, else "HE capabilities" Gen6, else
\* "VHT capabilities" or "VHT operation" Gen5, else "HT capabilities" or "HT
\* operation" Gen4, else Unknown; adding an older-generation header to a block
\* does not change its classification.
C7_NewestHeaderWins ==
    sPc = "returned" =>
        /\ \A i \in RecordedBlocks :
              Val(sRet)[Val(HeadKey(sSrc.blocks[i].head))] = NewestHeader(sSrc.blocks[i].hdrs)
        /\ \A b \in LastBlock :
              \A body \in {BlockBody(b)}, newest \in {NewestHeader(b.hdrs)} :
                  /\ detectScanGeneration(body) = newest
                  /\ \A h \in {g \in GenerationHeaders : HeaderGeneration(g) < newest} :
                        detectScanGeneration(body \o HeaderLine(h)) = newest

\* a block with only "VHT capabilities" is recorded as Gen5 and a block with
\* all of the HT, VHT, HE and EHT headers as Gen7
C7_Witness ==
    /\ sPc = "returned"
    /\ Len(sSrc.blocks) = 2
    /\ RecordedBlocks = {1, 2}
    /\ sSrc.blocks[1].hdrs = <<"VHTcap">>
    /\ sSrc.blocks[2].hdrs = <<"HTcap", "VHTcap", "HEcap", "EHTcap">>
    /\ Val(sRet)[Val(HeadKey(sSrc.blocks[1].head))] = 5
    /\ Val(sRet)[Val(HeadKey(sSrc.blocks[2].head))] = 7

BlockKeys == {Val(HeadKey(sSrc.blocks[i].head)) : i \in {j \in 1..Len(sSrc.blocks) : HeadKey(sSrc.blocks[j].head) # Null}}

PreambleKeys == IF PreambleKey(sSrc.pre) # Null THEN {Val(PreambleKey(sSrc.pre))} ELSE {}

IsLowerCase(s) == \A i \in 1..Len(s) : s[i] \notin UpperLetters

\* C8 as stated: the key set of the map is exactly the set of the lower-cased
\* leading 17-character MAC addresses of the "BSS " blocks of the text.
C8_AsStated == sPc = "returned" => DOMAIN Val(sRet) = BlockKeys

\* C8: the key set of the map is exactly the set of the lower-cased leading
\* 17-character MAC addresses of the pieces the text is split into at each "BSS "
\* that starts a line, the text before the first "BSS " being one of the pieces:
\* every key is lower-case, each valid BSSID yields exactly one entry, a piece
\* with no leading MAC address yields none, and the empty text yields the empty
\* map.
C8_KeysAreLeadingMacs ==
    sPc = "returned" =>
        /\ DOMAIN Val(sRet) = BlockKeys \cup PreambleKeys
        /\ \A k \in DOMAIN Val(sRet) : IsLowerCase(k) /\ Len(k) = 17
        /\ output = <<>> => Val(sRet) = EmptyMap

\* a first line that starts like a MAC address, a block with an upper-case
\* BSSID and a block whose head is no MAC address: two lower-case keys
C8_Witness ==
    /\ sPc = "returned"
    /\ sSrc.pre = "mac"
    /\ Len(sSrc.blocks) = 2
    /\ sSrc.blocks[1].head = "upper"
    /\ sSrc.blocks[2].head = "nonhex"
    /\ DOMAIN Val(sRet) = {Val(PreambleKey("mac")), Val(HeadKey("upper"))}
    /\ MapSize(Val(sRet)) = 2
    /\ \A k \in DOMAIN Val(sRet) : IsLowerCase(k)

(***************************************************************************)
(* Claims on SpecService                                                   *)
(***************************************************************************)
\* a completed dump whose parse had at least one entry
IsGoodDump(e) == e.kind = "exit_success" /\ e.out.entries # <<>>

NoDestroy == \A i \in 1..Len(svcLog) : svcLog[i].kind # "destroy"

\* the mapping of the most recent good dump, the empty mapping when there is none
MostRecentGood ==
    LET good == {i \in 1..Len(svcLog) : IsGoodDump(svcLog[i])}
    IN  IF good = {} THEN EmptyMap
        ELSE svcLog[CHOOSE i \in good : \A j \in good : j <= i].out.entries

\* C6: after any sequence of scan-dump completions the generation cache is the
\* mapping of the most recent completed dump whose parse had at least one
\* entry; a dump that fails to run, exits unsuccessfully, has empty output or
\* parses to no entry leaves the cache as it was.
C6_CacheIsLastGoodDump == NoDestroy => generationMap = MostRecentGood

\* a good dump, then a successful dump with no entry: the cache is still the
\* mapping of the first
C6_Witness ==
    /\ Len(svcLog) = 2
    /\ IsGoodDump(svcLog[1])
    /\ svcLog[2].kind = "exit_success"
    /\ svcLog[2].out.text # <<>>
    /\ svcLog[2].out.entries = <<>>
    /\ generationMap = svcLog[1].out.entries
    /\ MapSize(generationMap) = 2

\* destroy() has run and init() has not set the client since
Destroyed == ~NoDestroy /\ ~client

\* C29 as stated: once destroy() has run, the generation cache is empty and
\* stays empty until the service is initialized again, also when a scan dump
\* started before destroy() completes after it, and no device-signal handler
\* remains connected.
C29_AsStated == Destroyed => (generationMap = EmptyMap /\ ~watchedDevice)

(***************************************************************************)
(* Claims on SpecClassify                                                  *)
(***************************************************************************)
Called(name) == fnName = name /\ fnPc = "done"

\* the bit of weight w is set in the mask
BitSet(mask, w) == (mask \div w) % 2 = 1

\* the first applicable label, in the order C11 gives
FirstApplicableLabel(wpa, rsn) ==
    IF BitSet(rsn, 1024) THEN "WPA3"
    ELSE IF BitSet(rsn, 512) THEN "WPA2-Enterprise"
    ELSE IF BitSet(rsn, 256) THEN "WPA2"
    ELSE IF BitSet(wpa, 512) THEN "WPA-Enterprise"
    ELSE IF BitSet(wpa, 256) THEN "WPA"
    ELSE IF wpa = 0 /\ rsn = 0 THEN "Open"
    ELSE "Unknown"

\* C11: for every pair of masks getSecurityProtocol returns the first applicable
\* label in the order rsn SAE (WPA3), rsn 802.1X (WPA2-Enterprise), rsn PSK
\* (WPA2), wpa 802.1X (WPA-Enterprise), wpa PSK (WPA), then Open when both masks
\* are zero and Unknown otherwise; the label is Open exactly when both are zero.
C11_FirstApplicableLabel ==
    Called("getSecurityProtocol") =>
        \A ap \in {fnArgs[1]} :
            /\ fnRet = Some(FirstApplicableLabel(ap.wpaFlags, ap.rsnFlags))
            /\ (fnRet = Some("Open")) <=> (ap.wpaFlags = 0 /\ ap.rsnFlags = 0)

\* rsn carries PSK and a cipher bit, wpa carries 802.1X: the rsn label comes first
C11_Witness ==
    /\ Called("getSecurityProtocol")
    /\ fnArgs[1] = [wpaFlags |-> 512 + 8, rsnFlags |-> 256 + 8]
    /\ fnRet = Some("WPA2")

(***************************************************************************)
(* Claims on SpecNetworks                                                  *)
(***************************************************************************)
\* getAvailableNetworks has returned after going through the access points
ListedNetworks == nPc = "done" /\ client /\ wifiDevice # Null

\* the records in the Map returned, group after group
RECURSIVE FlattenGroups(_)
FlattenGroups(groups) ==
    IF groups = <<>> THEN <<>> ELSE Head(groups)[2] \o FlattenGroups(Tail(groups))

ReturnedNetworks == FlattenGroups(Val(nRet))

\* stale as C12 states it, the last scan in milliseconds and last-seen in seconds
StaleAsStated(lastSeen, lastScanMs) ==
    /\ lastScanMs > 0
    /\ lastSeen = -1 \/ 1000 * lastSeen < lastScanMs - 10000

LowerBssid(ap) == IF ap.bssid = Null THEN <<>> ELSE toLowerCase(Val(ap.bssid))

\* C12: isStaleAccessPoint is false for every access point when no scan has
\* completed (last scan <= 0), also for one never seen (-1); otherwise it is true
\* exactly when last-seen is -1 or last-seen < last scan - 10 seconds; and no
\* record returned by getAvailableNetworks is that of a stale access point.
C12_StaleNeverListed ==
    ListedNetworks =>
        \A dev \in {Val(wifiDevice)} : \A listed \in {ReturnedNetworks} :
            /\ \A i \in 1..Len(dev.accessPoints) :
                (loopLog[i] = "stale")
                    <=> StaleAsStated(dev.accessPoints[i].lastSeen, dev.lastScan)
            /\ \A k \in 1..Len(listed) : \A i \in 1..Len(dev.accessPoints) :
                LowerBssid(dev.accessPoints[i]) = listed[k].bssid
                    => ~StaleAsStated(dev.accessPoints[i].lastSeen, dev.lastScan)

\* last scan at 100 s: the access point seen at 90 s is listed, the ones seen at
\* 89 s and never are not
C12_Witness ==
    /\ ListedNetworks
    /\ Val(wifiDevice).lastScan = 100000
    /\ excludeSsid = Null
    /\ Len(Val(wifiDevice).accessPoints) = 3
    /\ Val(wifiDevice).accessPoints[1].lastSeen = 90
    /\ Val(wifiDevice).accessPoints[2].lastSeen = 89
    /\ Val(wifiDevice).accessPoints[3].lastSeen = -1
    /\ loopLog = <<"pushed", "stale", "stale">>
    /\ Len(ReturnedNetworks) = 1
    /\ ReturnedNetworks[1].bssid = <<"a","2">>

\* the positions of the access points the loop pushed a record for, in order
PushedPositions == {i \in 1..Len(loopLog) : loopLog[i] = "pushed"}

\* the number of positions of s that hold x
CountIn(s, x) == Cardinality({k \in 1..Len(s) : s[k] = x})

\* the place of nets[i] in the descending-signal list: behind every network with
\* a greater signal and behind the earlier ones with the same signal
PlaceInDescending(nets, i) ==
    1 + Cardinality({j \in 1..Len(nets) :
            \/ nets[j].signalPercent > nets[i].signalPercent
            \/ nets[j].signalPercent = nets[i].signalPercent /\ j < i})

\* the place at which the SSID is first met in the descending-signal list
FirstMet(nets, ssid) ==
    CHOOSE p \in 1..Len(nets) :
        /\ \E i \in 1..Len(nets) : nets[i].ssid = ssid /\ PlaceInDescending(nets, i) = p
        /\ \A i \in 1..Len(nets) : nets[i].ssid = ssid => PlaceInDescending(nets, i) >= p

MaxSignalOf(nets, ssid) ==
    CHOOSE v \in {nets[i].signalPercent : i \in {j \in 1..Len(nets) : nets[j].ssid = ssid}} :
        \A i \in 1..Len(nets) : nets[i].ssid = ssid => nets[i].signalPercent <= v

\* C13: groupBySSID(sortBySignalStrength(networks)) yields groups whose first
\* entry has the greatest signal percentage of its SSID, in the order in which
\* the SSIDs are first met in the descending-signal list (so by best signal,
\* descending), whose members together are exactly the input networks, each in
\* exactly one group; and the input list keeps its order.
C13_GroupsByBestSignal ==
    ListedNetworks =>
        \A groups \in {Val(nRet)} : \A listed \in {ReturnedNetworks} :
            /\ \A g \in 1..Len(groups) :
                /\ groups[g][2] # <<>>
                /\ \A k \in 1..Len(groups[g][2]) : groups[g][2][k].ssid = groups[g][1]
                /\ groups[g][2][1].signalPercent = MaxSignalOf(networks, groups[g][1])
            /\ \A g \in 1..Len(groups) : \A h \in 1..Len(groups) :
                g < h =>
                    /\ groups[g][1] # groups[h][1]
                    /\ FirstMet(networks, groups[g][1]) < FirstMet(networks, groups[h][1])
                    /\ groups[g][2][1].signalPercent >= groups[h][2][1].signalPercent
            /\ Len(listed) = Len(networks)
            /\ \A k \in 1..Len(networks) : CountIn(listed, networks[k]) = CountIn(networks, networks[k])
            /\ Len(networks) = Cardinality(PushedPositions)
            /\ \A k \in 1..Len(networks) :
                \E i \in PushedPositions :
                    /\ Cardinality({j \in PushedPositions : j <= i}) = k
                    /\ networks[k].bssid = LowerBssid(Val(wifiDevice).accessPoints[i])

\* "b" at 80, "a" at 80, "a" at 95: the groups are "a" (95, 80) then "b", and the
\* input list still starts with "b"
C13_Witness ==
    /\ ListedNetworks
    /\ Len(networks) = 3
    /\ networks[1].ssid = <<"b">> /\ networks[1].signalPercent = Num(80)
    /\ networks[2].ssid = <<"a">> /\ networks[2].signalPercent = Num(80)
    /\ networks[3].ssid = <<"a">> /\ networks[3].signalPercent = Num(95)
    /\ Len(Val(nRet)) = 2
    /\ Val(nRet)[1] = <<(<<"a">>), <<networks[3], networks[2]>> >>
    /\ Val(nRet)[2] = <<(<<"b">>), <<networks[1]>> >>


\* the generation the cache holds for a key, Unknown when it holds none
CacheHolds(cache, key) == IF key \in DOMAIN cache THEN cache[key] ELSE WIFI_UNKNOWN

\* C22: every ScannedNetwork built by getAvailableNetworks has a lower-cased
\* BSSID, and its generation is the value the generation cache holds for that
\* lower-cased BSSID, or Unknown when the cache has no entry for it; building
\* the records never modifies the cache.
C22_GenerationFromCache ==
    /\ [](ListedNetworks =>
            \A listed \in {ReturnedNetworks} : \A k \in 1..Len(listed) :
                /\ IsLowerCase(listed[k].bssid)
                /\ \E i \in 1..Len(Val(wifiDevice).accessPoints) :
                        /\ loopLog[i] = "pushed"
                        /\ listed[k].bssid = LowerBssid(Val(wifiDevice).accessPoints[i])
                /\ listed[k].generation = CacheHolds(generationMap, listed[k].bssid))
    /\ [][GetAvailableNetworks => generationMap' = generationMap]_vars

\* the access point "A1" is listed as "a1" with the Gen6 the cache holds for
\* "a1", the access point "a2", unknown to the cache, with Unknown
C22_Witness ==
    /\ ListedNetworks
    /\ generationMap # EmptyMap
    /\ \E i \in 1..Len(Val(wifiDevice).accessPoints) :
            Val(wifiDevice).accessPoints[i].bssid = Some(<<"A", "1">>)
    /\ \E k \in 1..Len(ReturnedNetworks) :
            /\ ReturnedNetworks[k].bssid = <<"a", "1">>
            /\ ReturnedNetworks[k].generation = WIFI_6
    /\ \E k \in 1..Len(ReturnedNetworks) :
            /\ ReturnedNetworks[k].bssid = <<"a", "2">>
            /\ ReturnedNetworks[k].generation = WIFI_UNKNOWN

(***************************************************************************)
(* Claims on SpecSnapshot                                                  *)
(***************************************************************************)
\* the values the cache has had: the empty map of the constructor and the whole
\* mapping of each good dump completed so far
CacheSnapshots == {EmptyMap} \cup {svcLog[i].out.entries : i \in {j \in 1..Len(svcLog) : IsGoodDump(svcLog[j])}}

\* every record of a returned Map has the generation the one cache holds
FromOneSnapshot(groups, cache) ==
    \A listed \in {FlattenGroups(groups)} : \A k \in 1..Len(listed) :
        listed[k].generation = CacheHolds(cache, listed[k].bssid)

\* C23: under every interleaving of getAvailableNetworks calls with scan-dump
\* completions, all the records one call returns take their generations from
\* a single cache snapshot, the cache as it is when the call is made (entirely
\* the old mapping or entirely the new one); a scan-dump completion replaces
\* the cache by the whole fresh mapping or leaves it alone, it never writes
\* entries into the mapping that is there.
C23_OneSnapshotPerCall ==
    /\ [][GetAvailableNetworks => FromOneSnapshot(Val(nRet'), generationMap)]_vars
    /\ [](nPc = "done" => \E cache \in CacheSnapshots : FromOneSnapshot(Val(nRet), cache))
    /\ [][DumpCompletes =>
            \/ generationMap' = generationMap
            \/ generationMap' = svcLog'[Len(svcLog')].out.entries]_vars
    /\ [](generationMap \in CacheSnapshots)

\* a dump with one entry, then a dump with two, then the call: the records
\* carry the generations of the second mapping (Gen5 and Gen4, Unknown for the
\* access point it does not list), none the Gen6 of the first; a third dump is
\* still in flight
C23_Witness ==
    /\ nPc = "done"
    /\ Len(svcLog) = 2
    /\ IsGoodDump(svcLog[1]) /\ MapSize(svcLog[1].out.entries) = 1
    /\ IsGoodDump(svcLog[2]) /\ MapSize(svcLog[2].out.entries) = 2
    /\ generationMap = svcLog[2].out.entries
    /\ inflight > 0
    /\ \A listed \in {FlattenGroups(Val(nRet))} :
            /\ Len(listed) = 3
            /\ {listed[k].generation : k \in 1..3} = {WIFI_5, WIFI_4, WIFI_UNKNOWN}
(***************************************************************************)
(* Claims on SpecClassify: frequencies, percentages and bitrates           *)
(***************************************************************************)
\* the whole number of MHz, for a frequency that is one
WholeMHz(f) == f \div 10

\* round(n / 5) for an integer n >= 0: the k with 5k within 2 of n
NearestFifth(n) == CHOOSE k \in 0..(n \div 5 + 1) : 5 * k - n \in -2..2

\* the channel C14 states for an integer frequency of f MHz
ChannelAsStated(f) ==
    IF f = 2484 THEN 14
    ELSE IF 2412 <= f /\ f < 2484 THEN NearestFifth(f - 2412) + 1
    ELSE IF 5170 <= f /\ f <= 5825 THEN NearestFifth(f - 5000)
    ELSE IF 5955 <= f /\ f <= 7115 THEN NearestFifth(f - 5950)
    ELSE 0

\* C14: for every integer frequency f, frequencyToChannel(f) is 14 when f = 2484,
\* round((f-2412)/5)+1 when 2412 <= f < 2484, round((f-5000)/5) when
\* 5170 <= f <= 5825, round((f-5950)/5) when 5955 <= f <= 7115, and 0 otherwise.
C14_ChannelOfFrequency ==
    (Called("frequencyToChannel") /\ fnArgs[1] % 10 = 0) =>
        fnRet = Some(Num(ChannelAsStated(WholeMHz(fnArgs[1]))))

\* 2484 MHz is channel 14, where the formula of the 2.4 GHz range would give 15
C14_Witness ==
    /\ Called("frequencyToChannel")
    /\ fnArgs[1] = Num(2484)
    /\ fnRet = Some(Num(14))

\* the band C15 states, the frequency counted in tenths of a MHz
BandAsStated(f) ==
    IF 24000 <= f /\ f < 25000 THEN "2.4 GHz"
    ELSE IF 51500 <= f /\ f < 59000 THEN "5 GHz"
    ELSE IF 59250 <= f /\ f <= 71250 THEN "6 GHz"
    ELSE "Unknown"

\* C15: for every frequency f, frequencyToBand(f) is '2.4 GHz' when
\* 2400 <= f < 2500, '5 GHz' when 5150 <= f < 5900, '6 GHz' when
\* 5925 <= f <= 7125, and 'Unknown' for every other f, 5900..5924 included.
C15_BandOfFrequency ==
    Called("frequencyToBand") =>
        /\ fnRet = Some(BandAsStated(fnArgs[1]))
        /\ (Num(5900) <= fnArgs[1] /\ fnArgs[1] < Num(5925)) => fnRet = Some("Unknown")

\* 5900 MHz, the first frequency of the gap between the 5 GHz and 6 GHz labels
C15_Witness ==
    /\ Called("frequencyToBand")
    /\ fnArgs[1] = Num(5900)
    /\ fnRet = Some("Unknown")

\* the quality C16 states, the percentage counted in tenths
SignalQualityAsStated(p) ==
    IF p >= 800 THEN "Excellent"
    ELSE IF 600 <= p /\ p < 800 THEN "Good"
    ELSE IF 400 <= p /\ p < 600 THEN "Fair"
    ELSE IF 200 <= p /\ p < 400 THEN "Weak"
    ELSE "Poor"

SignalQualityRank(q) ==
    CASE q = "Poor" -> 0 [] q = "Weak" -> 1 [] q = "Fair" -> 2 [] q = "Good" -> 3
      [] q = "Excellent" -> 4 [] OTHER -> -1

\* C16: for every signal percentage p, getSignalQualityFromPercent(p) is Excellent
\* when p >= 80, Good when 60 <= p < 80, Fair when 40 <= p < 60, Weak when
\* 20 <= p < 40 and Poor when p < 20; it never returns 'Unknown' and is monotone
\* non-decreasing in p.
C16_SignalQualityOfPercent ==
    Called("getSignalQualityFromPercent") =>
        /\ fnRet = Some(SignalQualityAsStated(fnArgs[1]))
        /\ fnRet # Some("Unknown")
        /\ \A q \in PercentInputs :
            q >= fnArgs[1] =>
                SignalQualityRank(getSignalQualityFromPercent(q)) >= SignalQualityRank(Val(fnRet))

\* exactly 80 percent is Excellent
C16_Witness ==
    /\ Called("getSignalQualityFromPercent")
    /\ fnArgs[1] = Num(80)
    /\ fnRet = Some("Excellent")

\* the quality C17 states, the bitrate counted in tenths of a Mbit/s
SpeedQualityAsStated(b) ==
    IF b >= 10000 THEN "Excellent"
    ELSE IF 3000 <= b /\ b < 10000 THEN "VeryGood"
    ELSE IF 1000 <= b /\ b < 3000 THEN "Good"
    ELSE IF 500 <= b /\ b < 1000 THEN "OK"
    ELSE IF 200 <= b /\ b < 500 THEN "Weak"
    ELSE "Poor"

\* C17: for every bitrate b in Mbit/s, getSpeedQuality(b) is Excellent when
\* b >= 1000, VeryGood when 300 <= b < 1000, Good when 100 <= b < 300, OK when
\* 50 <= b < 100, Weak when 20 <= b < 50 and Poor when b < 20.
C17_SpeedQualityOfBitrate ==
    Called("getSpeedQuality") => fnRet = Some(SpeedQualityAsStated(fnArgs[1]))

\* exactly 300 Mbit/s is VeryGood
C17_Witness ==
    /\ Called("getSpeedQuality")
    /\ fnArgs[1] = Num(300)
    /\ fnRet = Some("VeryGood")

(***************************************************************************)
(* Claims on SpecClassify: channels and bands of one frequency             *)
(***************************************************************************)
\* a frequency, in tenths of a MHz, strictly between 5825 and 5955 MHz
InGap(f) == Num(5825) < f /\ f < Num(5955)

\* C25 as stated: for every frequency strictly between 5825 and 5955 MHz,
\* frequencyToChannel returns 0 and frequencyToBand returns 'Unknown' or '5 GHz'.
C25_AsStated ==
    /\ (Called("frequencyToChannel") /\ InGap(fnArgs[1])) => fnRet = Some(Num(0))
    /\ (Called("frequencyToBand") /\ InGap(fnArgs[1])) => fnRet \in {Some("Unknown"), Some("5 GHz")}

\* C25: for every frequency strictly between 5825 and 5955 MHz,
\* frequencyToChannel returns 0, and frequencyToBand returns '5 GHz' below
\* 5900 MHz, 'Unknown' from 5900 MHz to below 5925 MHz and '6 GHz' from 5925 MHz on.
C25_GapChannelZero ==
    /\ (Called("frequencyToChannel") /\ InGap(fnArgs[1])) => fnRet = Some(Num(0))
    /\ (Called("frequencyToBand") /\ InGap(fnArgs[1])) =>
            fnRet = Some(IF fnArgs[1] < Num(5900) THEN "5 GHz"
                         ELSE IF fnArgs[1] < Num(5925) THEN "Unknown"
                         ELSE "6 GHz")

\* 5930 MHz is in the gap and is labelled '6 GHz'
C25_Witness ==
    /\ Called("frequencyToBand")
    /\ fnArgs[1] = Num(5930)
    /\ fnRet = Some("6 GHz")
    /\ frequencyToChannel(fnArgs[1]) = Num(0)

\* the band of the channel-number range a frequency lies in
BandOfChannelRange(f) ==
    IF Num(2412) <= f /\ f <= Num(2484) THEN "2.4 GHz"
    ELSE IF Num(5170) <= f /\ f <= Num(5825) THEN "5 GHz"
    ELSE IF Num(5955) <= f /\ f <= Num(7115) THEN "6 GHz"
    ELSE "Unknown"

\* C30: for every frequency f, if frequencyToChannel(f) is non-zero then
\* frequencyToBand(f) is not 'Unknown': each channel-number range lies inside
\* the band-label range of the same band.  The converse does not hold: 2400 MHz
\* has channel 0 and the label '2.4 GHz'.
C30_ChannelImpliesBand ==
    /\ (Called("frequencyToChannel") /\ fnRet # Some(Num(0))) =>
            /\ frequencyToBand(fnArgs[1]) # "Unknown"
            /\ frequencyToBand(fnArgs[1]) = BandOfChannelRange(fnArgs[1])
    /\ (Called("frequencyToBand") /\ fnRet = Some("Unknown")) =>
            frequencyToChannel(fnArgs[1]) = Num(0)
    /\ (Called("frequencyToBand") /\ fnArgs[1] = Num(2400)) =>
            fnRet = Some("2.4 GHz") /\ frequencyToChannel(fnArgs[1]) = Num(0)

\* 5955 MHz, the lowest frequency with a 6 GHz channel number, is channel 1
\* and is labelled '6 GHz'
C30_Witness ==
    /\ Called("frequencyToChannel")
    /\ fnArgs[1] = Num(5955)
    /\ fnRet = Some(Num(1))
    /\ frequencyToBand(fnArgs[1]) = "6 GHz"

(***************************************************************************)
(* Claims on SpecExtension                                                 *)
(***************************************************************************)
\* C27 as stated: refresh() is non-reentrant: under every interleaving of
\* refresh-timer ticks, menu-open events, device-signal callbacks and
\* disable()/enable() cycles, at most one refresh() is between setting
\* refreshPending and its finally block, and refreshPending is false whenever
\* no refresh is in flight, also after getConnectionInfo rejects.
C27_AsStated ==
    /\ RefreshesInFlight <= 1
    /\ RefreshesInFlight = 0 => ~refreshPending

\* the enable() of the epoch has been followed by disable() or by another enable()
Superseded(epoch) == epoch # enableEpoch \/ lastCall = "disable"

====
